---- MODULE Spec2Model ----
(***************************************************************************)
(* Verification model of the raffle ingestion pipeline.                    *)
(*                                                                         *)
(* Part 1 (specifications Spec, SpecLive): the render cache                *)
(* PlaywrightFetcher of scrapers/playwright_fetcher.py: coroutines of one  *)
(* asyncio event loop call fetch(); an action is the code between two      *)
(* suspension points.                                                      *)
(*                                                                         *)
(* Part 2 (specifications SpecIngest, SpecIngestAll): the scraper loop,    *)
(* upsert and prune of app/ingest.py (ingest_all),                         *)
(* scripts/update_raffles.py (run_ingestion) and                           *)
(* raffle_backend/ingestion.py (run_ingestion).                            *)
(*                                                                         *)
(* Part 3 (specification SpecStore): the table raffles under upsert and    *)
(* prune calls.                                                            *)
(*                                                                         *)
(* Part 4 (specification SpecNormalize): normalize_ticket_metrics of       *)
(* scraper/utils.py.                                                       *)
(*                                                                         *)
(* Part 5 (specification SpecOdds): _compute_odds of                       *)
(* scripts/update_raffles.py.                                              *)
(*                                                                         *)
(* Part 6 (specification SpecDeadline): parse_countdown_text of            *)
(* scraper/utils.py with parse of dateutil/parser.py.                      *)
(*                                                                         *)
(* Part 7 (specification SpecFetch): the page fetches of                   *)
(* scrapers/base.py (Scraper.fetch_html), scraper/base.py                  *)
(* (SiteScraper._iterate_pages) and scraper/sites/raffle_site_a.py         *)
(* (RaffleSiteAScraper.fetch).                                             *)
(*                                                                         *)
(* Part 8 (specification SpecParse): the parsing of the listing cards by   *)
(* SiteScraper.scrape (scraper/base.py) and RaffleSiteAScraper.parse.      *)
(*                                                                         *)
(* Part 9 (specification SpecSession): ScraperSession of                   *)
(* scrapers/session.py under calls of ensure_authenticated and request.    *)
(*                                                                         *)
(* Part 10 (specification SpecApi): RaffleAPIScraper.run_async of          *)
(* scrapers/raffle_api.py.                                                 *)
(*                                                                         *)
(* Part 11 (specification SpecQueue): _RaffleQueue of scraper/pipeline.py  *)
(* under producer threads and one consumer thread.                         *)
(*                                                                         *)
(* Part 12 (specification SpecPages): the pagination of                    *)
(* SiteScraper.scrape and _iterate_pages (scraper/base.py).                *)
(***************************************************************************)
EXTENDS Integers, Sequences, FiniteSets, TLC

\* ------------------------------------------------------------------------
\* Bounds of the model and configuration values
\* ------------------------------------------------------------------------
NumCallers == 2
MaxTime == 4
TtlSeconds == 1
MaxConcurrent == 2
MinIntervalSeconds == 2

Callers == 1..NumCallers

\* "unlocked" value of an asyncio.Lock (no holder)
Unlocked == 0
\* Optional[str] None for contents (content ids of renders start at 1)
NoContent == 0

\* Strings are sequences of characters; NoneSel is wait_for_selector=None.
NoneSel == <<"None">>
Urls == { <<"a">>, <<"a", "|", "b">>, <<"c">> }
Selectors == { NoneSel, <<"b", "|">> }

\* The fetch calls the callers may issue: (url, wait_for_selector, use_cache)
Requests ==
  { [url |-> <<"a">>, sel |-> <<"b", "|">>, use_cache |-> TRUE],
    [url |-> <<"a", "|", "b">>, sel |-> NoneSel, use_cache |-> TRUE],
    [url |-> <<"c">>, sel |-> NoneSel, use_cache |-> TRUE],
    [url |-> <<"c">>, sel |-> NoneSel, use_cache |-> FALSE] }

NoRequest == [url |-> <<>>, sel |-> NoneSel, use_cache |-> FALSE]

VARIABLES
  now,          \* the clock read by time.time() and time.monotonic()
  pc,           \* position of each caller inside fetch()
  req,          \* arguments of each caller's fetch call
  result,       \* content returned to each caller (NoContent before)
  via,          \* how the call ended: "none", "cache", "render", "error"
  url_locks,    \* self._url_locks: url -> holder of the asyncio.Lock
  max_concurrent, \* self.config.max_concurrent
  semaphore,    \* self._semaphore: free slots
  rate_lock,    \* self._rate_lock: holder
  last_fetch,   \* self._last_fetch
  wake,         \* end of each caller's asyncio.sleep
  cache,        \* the cache files: key -> payload
  renders,      \* log of fetch_impl invocations (history)
  rid,          \* index in renders of each caller's fetch_impl invocation
  \* ---- ingestion run ----
  variant,      \* "app": app/ingest.py ingest_all; "scripts": run_ingestion
  scrapers,     \* the list returned by get_scrapers() / discover()
  idx,          \* number of scrapers the for loop has been through
  executed,     \* positions of the scrapers whose run()/collect() was called
  pooled,       \* `normalized` of ingest_all, `all_records` of run_ingestion
  failures,     \* `failures` of ingest_all: sources, in order
  log,          \* LOGGER.exception / LOGGER.warning records
  ipc,          \* phase of the run
  store,        \* table raffles: the set of its rows
  retention,    \* prune_hours of run_ingestion
  counts,       \* affected / deleted row counts of the store calls
  summary,      \* what the run returned to its caller
  calls,        \* the calls the run made, in order (history)
  \* ---- the table under upsert and prune calls ----
  last_call,    \* the store call made last
  \* ---- normalize_ticket_metrics ----
  given,        \* the arguments total, sold, remaining
  metrics,      \* the NormalizedTicketMetrics returned for them
  passes,       \* how many times the function was applied: 0, 1 or 2
  \* ---- _compute_odds ----
  record,       \* the RaffleRecord: total_tickets and the two odds fields
  opc,          \* "start", "returned" or "raised"
  \* ---- parse_countdown_text ----
  text,         \* the argument value, a sequence of tokens
  reference,    \* the argument now
  resolved,     \* the deadline returned
  dpc,          \* "start", "returned" or "raised"
  \* ---- the page fetches of a scraper ----
  fetcher,      \* the method that fetches
  num_pages,    \* the pages the listing has
  tries,        \* tries[p]: the outcomes of the attempts made for page p
  waits,        \* waits[p]: the sleeps made between the attempts for page p
  payloads,     \* the pages whose body was obtained
  fpc,          \* "fetch", "wait", "returned" or "failed"
  \* ---- the parsing of a listing ----
  scraper_class, \* "SiteScraper" or "RaffleSiteAScraper"
  listing,      \* the cards of the pages in order, "next_page" between pages
  parsed_upto,  \* the items of the listing gone through
  competitions, \* the entries made so far: <<position, complete>>
  ppc,          \* "parse", "returned" or "raised"
  \* ---- ScraperSession ----
  login_config, \* "none", "email_password", "token" or "unsupported"
  authenticated, \* _authenticated
  login_attempted, \* _login_attempted
  logins,       \* the login outcomes, one for each attempt made
  returned,     \* what the calls of ensure_authenticated returned, in order
  session_calls, \* the calls made: "ensure" or "request", with sent or not
  \* ---- RaffleAPIScraper.run_async ----
  endpoints,    \* what each discovered endpoint answers, in discovery order
  fetched,      \* the endpoints fetch_json was called for, in call order
  render_calls, \* the calls of playwright_fetcher.fetch
  api_result,   \* where the ScraperResult returned came from
  apc,          \* "endpoints", "render", "returned" or "raised"
  \* ---- _RaffleQueue ----
  queue,        \* self._queue: the entries held, oldest first
  queue_lock,   \* self._lock: the producer holding it, 0 when free
  pending,      \* pending[p]: the entries producer p's call has yet to put
  issued,       \* issued[p]: how many entries producer p has passed in
  popped,       \* the entries pop() returned, in order (history)
  qpc,          \* qpc[p]: "idle", "acquire", "put" or "release"
  \* ---- the pagination of SiteScraper ----
  links,        \* links[u]: what get_next_page_url gives for the page at u
  listing_urls, \* self.listing_urls
  listing_at,   \* the position in listing_urls of the listing gone through
  seen,         \* `seen` of _iterate_pages
  next_url,     \* `next_url` of _iterate_pages
  requested,    \* the session.get calls: <<listing position, url>> (history)
  upc           \* "paging", "returned" or "raised"

renderVars == <<pc, req, result, via, url_locks, max_concurrent, semaphore,
                rate_lock, last_fetch, wake, cache, renders, rid>>
ingestVars == <<variant, scrapers, idx, executed, pooled, failures, log, ipc,
                store, retention, counts, summary, calls>>
runVars == <<variant, scrapers, idx, executed, pooled, failures, log, ipc,
             retention, counts, summary, calls>>
storeVars == <<last_call>>
normalizeVars == <<given, metrics, passes>>
oddsVars == <<record, opc>>
deadlineVars == <<text, reference, resolved, dpc>>
fetchVars == <<fetcher, num_pages, tries, waits, payloads, fpc>>
parseVars == <<scraper_class, listing, parsed_upto, competitions, ppc>>
sessionVars == <<login_config, authenticated, login_attempted, logins,
                 returned, session_calls>>
apiVars == <<endpoints, fetched, render_calls, api_result, apc>>
queueVars == <<queue, queue_lock, pending, issued, popped, qpc>>
pageVars == <<links, listing_urls, listing_at, seen, next_url, requested, upc>>
\* the variables of the parts that model one function or one class
unitVars == <<normalizeVars, oddsVars, deadlineVars, fetchVars,
              parseVars, sessionVars, apiVars, queueVars, pageVars>>
vars == <<now, renderVars, ingestVars, storeVars, unitVars>>

\* an action of one of these parts leaves the variables of the others
OtherUnitsUnchanged(part) ==
  /\ IF part = "normalize" THEN TRUE ELSE UNCHANGED normalizeVars
  /\ IF part = "odds" THEN TRUE ELSE UNCHANGED oddsVars
  /\ IF part = "deadline" THEN TRUE ELSE UNCHANGED deadlineVars
  /\ IF part = "fetch" THEN TRUE ELSE UNCHANGED fetchVars
  /\ IF part = "parse" THEN TRUE ELSE UNCHANGED parseVars
  /\ IF part = "session" THEN TRUE ELSE UNCHANGED sessionVars
  /\ IF part = "api" THEN TRUE ELSE UNCHANGED apiVars
  /\ IF part = "queue" THEN TRUE ELSE UNCHANGED queueVars
  /\ IF part = "pages" THEN TRUE ELSE UNCHANGED pageVars

\* ------------------------------------------------------------------------
\* Pure helpers of PlaywrightFetcher
\* ------------------------------------------------------------------------

\* _cache_path: key = f"{url}|{wait_for_selector or ''}"; the sha256 digest
\* of the key is taken to be collision free, so the key string stands for
\* the file path.
CachePath(url, sel) ==
  url \o <<"|">> \o (IF sel = NoneSel THEN <<>> ELSE sel)

CacheKeys == { CachePath(r.url, r.sel) : r \in Requests }

NoFile == [exists |-> FALSE, timestamp |-> 0, content |-> NoContent]

ReadCacheOffByOne(files, path, t) ==
  IF ~files[path].exists THEN NoContent
  ELSE IF t - files[path].timestamp >= TtlSeconds THEN NoContent
  ELSE files[path].content

\* _read_cache: None when the file is missing or its age exceeds the ttl
ReadCache(files, path, t) ==
  IF ~files[path].exists THEN NoContent
  ELSE IF t - files[path].timestamp > TtlSeconds THEN NoContent
  ELSE files[path].content

WriteCacheNoTimestamp(files, path, content, t) ==
  [files EXCEPT ![path] = [exists |-> TRUE, timestamp |-> files[path].timestamp,
                           content |-> content]]

\* _write_cache: payload = {"timestamp": time.time(), "content": content}
WriteCache(files, path, content, t) ==
  [files EXCEPT ![path] = [exists |-> TRUE, timestamp |-> t, content |-> content]]

WaitForNothing(t, last) == 0

\* _respect_interval: wait_for = min_interval_seconds - (now - _last_fetch)
WaitFor(t, last) == MinIntervalSeconds - (t - last)

SemaphoreAlwaysFree(value) == TRUE

\* asyncio.Semaphore.acquire proceeds without waiting when the value is > 0
SemaphoreFree(value) == value > 0

\* the key under which fetch takes the per-key lock: _url_locks.setdefault(url, ...)
LockKey(r) == r.url

RecheckCacheAlways(files, r, t) == ReadCache(files, CachePath(r.url, r.sel), t)

RecheckCacheSkipped(files, r, t) == NoContent

\* lines 66-70: the second lookup, made once the per-key lock is held
RecheckCache(files, r, t) ==
  IF r.use_cache THEN ReadCache(files, CachePath(r.url, r.sel), t) ELSE NoContent

ExitUrlLockLeak(c) == c

\* exit of `async with lock` (line 64), on return and on exception
ExitUrlLock(c) == Unlocked

ExitSemaphoreLeak(value) == value

\* exit of `async with self._semaphore` (line 72), on return and on exception
ExitSemaphore(value) == value + 1

ExitRateLockLeak(c) == c

\* exit of `async with self._rate_lock` (line 81)
ExitRateLock(c) == Unlocked

\* ------------------------------------------------------------------------
\* Initial state: a fresh PlaywrightFetcher, empty cache directory
\* ------------------------------------------------------------------------
RenderInit ==
  /\ pc = [c \in Callers |-> "idle"]
  /\ req = [c \in Callers |-> NoRequest]
  /\ result = [c \in Callers |-> NoContent]
  /\ via = [c \in Callers |-> "none"]
  /\ url_locks = [u \in Urls |-> Unlocked]
  /\ max_concurrent \in 1..MaxConcurrent
  /\ semaphore = max_concurrent
  /\ rate_lock = Unlocked
  /\ last_fetch = 0
  /\ wake = [c \in Callers |-> 0]
  /\ cache = [k \in CacheKeys |-> NoFile]
  /\ renders = <<>>
  /\ rid = [c \in Callers |-> 0]

\* no ingestion run is under way
IngestIdle ==
  /\ variant = "none"
  /\ scrapers = <<>>
  /\ idx = 0
  /\ executed = {}
  /\ pooled = <<>>
  /\ failures = <<>>
  /\ log = <<>>
  /\ ipc = "idle"
  /\ store = {}
  /\ retention = 0
  /\ counts = [affected |-> 0, deleted |-> 0]
  /\ summary = [returned |-> FALSE]
  /\ calls = <<>>

\* no store call has been made
\* (hit: the keys of an upsert's batch that had a row; again: the call
\* before was an upsert of the same batch; present: the keys passed to
\* prune_missing)
NoCall == [op |-> "none", batch |-> <<>>, cutoff |-> 0, hit |-> {},
           again |-> FALSE, present |-> {}]

StoreIdle == last_call = NoCall

\* Optional[int] None, Optional[float] None
None == -1
NoRatio == <<0, 0>>
NoMetrics == [total |-> None, sold |-> None, remaining |-> None,
              sold_ratio |-> NoRatio]

\* normalize_ticket_metrics has not been called
NormalizeIdle ==
  /\ given = NoMetrics
  /\ metrics = NoMetrics
  /\ passes = 0

\* Optional[float] None as a fraction is NoRatio
NoRecord == [total_tickets |-> None,
             win_probability_single_ticket |-> NoRatio,
             min_tickets_for_half_chance |-> None]

\* _compute_odds has not been called
OddsIdle ==
  /\ record = NoRecord
  /\ opc = "idle"

\* Optional[str] None of parse_countdown_text: no deadline; a deadline is
\* the wall-clock time "at" in seconds since 2024-01-01T00:00:00 and the
\* hours "off" of its UTC offset
NoDeadline == [ok |-> FALSE, at |-> 0, off |-> 0]

\* parse_countdown_text has not been called
DeadlineIdle ==
  /\ text = <<>>
  /\ reference = 0
  /\ resolved = NoDeadline
  /\ dpc = "idle"

\* no fetch has been started
FetchIdle ==
  /\ fetcher = "none"
  /\ num_pages = 0
  /\ tries = <<>>
  /\ waits = <<>>
  /\ payloads = <<>>
  /\ fpc = "idle"

\* no listing is being parsed
ParseIdle ==
  /\ scraper_class = "none"
  /\ listing = <<>>
  /\ parsed_upto = 0
  /\ competitions = <<>>
  /\ ppc = "idle"

\* no ScraperSession has been made
SessionIdle ==
  /\ login_config = "none"
  /\ authenticated = FALSE
  /\ login_attempted = FALSE
  /\ logins = <<>>
  /\ returned = <<>>
  /\ session_calls = <<>>

\* no ScraperResult yet
NoResult == [via |-> "none", endpoint |-> 0, data |-> FALSE]

\* run_async has not been called
ApiIdle ==
  /\ endpoints = <<>>
  /\ fetched = <<>>
  /\ render_calls = 0
  /\ api_result = NoResult
  /\ apc = "idle"

\* no thread uses the queue
QueueIdle ==
  /\ queue = <<>>
  /\ queue_lock = 0
  /\ pending = <<>>
  /\ issued = <<>>
  /\ popped = <<>>
  /\ qpc = <<>>

\* scrape has not been called
PagesIdle ==
  /\ links = <<>>
  /\ listing_urls = <<>>
  /\ listing_at = 0
  /\ seen = {}
  /\ next_url = 0
  /\ requested = <<>>
  /\ upc = "idle"

\* every part but the named one is idle
OtherUnitsIdle(part) ==
  /\ part = "normalize" \/ NormalizeIdle
  /\ part = "odds" \/ OddsIdle
  /\ part = "deadline" \/ DeadlineIdle
  /\ part = "fetch" \/ FetchIdle
  /\ part = "parse" \/ ParseIdle
  /\ part = "session" \/ SessionIdle
  /\ part = "api" \/ ApiIdle
  /\ part = "queue" \/ QueueIdle
  /\ part = "pages" \/ PagesIdle

UnitsIdle == OtherUnitsIdle("none")

Init ==
  /\ now = 0
  /\ RenderInit
  /\ IngestIdle
  /\ StoreIdle
  /\ UnitsIdle

\* ------------------------------------------------------------------------
\* fetch(), one action per stretch of code between suspension points
\* ------------------------------------------------------------------------

\* the call of fetch_impl (line 74): the render starts, its content is new
StartRender(c) ==
  /\ renders' = Append(renders, [url |-> req[c].url, sel |-> req[c].sel,
                                 use_cache |-> req[c].use_cache,
                                 start |-> now, outcome |-> "running"])
  /\ rid' = [rid EXCEPT ![c] = Len(renders) + 1]
  /\ pc' = [pc EXCEPT ![c] = "rendering"]

\* lines 56-63: first cache lookup; a hit returns, a miss goes for the lock
Call(c, r) ==
  /\ pc[c] = "idle"
  /\ req' = [req EXCEPT ![c] = r]
  /\ LET cached == ReadCache(cache, CachePath(r.url, r.sel), now) IN
       IF r.use_cache /\ cached # NoContent
       THEN /\ result' = [result EXCEPT ![c] = cached]
            /\ via' = [via EXCEPT ![c] = "cache"]
            /\ pc' = [pc EXCEPT ![c] = "done"]
       ELSE /\ pc' = [pc EXCEPT ![c] = "wait_lock"]
            /\ UNCHANGED <<result, via>>
  /\ UNCHANGED <<now, max_concurrent, url_locks, semaphore, rate_lock,
                 last_fetch, wake, cache, renders, rid>>
  /\ UNCHANGED <<ingestVars, storeVars, unitVars>>

\* lines 64-70: the per-key lock is acquired, the cache is checked again
AcquireUrlLock(c) ==
  /\ pc[c] = "wait_lock"
  /\ url_locks[LockKey(req[c])] = Unlocked
  /\ LET cached == RecheckCache(cache, req[c], now) IN
       IF cached # NoContent
       THEN /\ result' = [result EXCEPT ![c] = cached]
            /\ via' = [via EXCEPT ![c] = "cache"]
            /\ pc' = [pc EXCEPT ![c] = "done"]
            /\ url_locks' = [url_locks EXCEPT ![LockKey(req[c])] = ExitUrlLock(c)]
       ELSE /\ url_locks' = [url_locks EXCEPT ![LockKey(req[c])] = c]
            /\ pc' = [pc EXCEPT ![c] = "wait_sem"]
            /\ UNCHANGED <<result, via>>
  /\ UNCHANGED <<now, max_concurrent, req, semaphore, rate_lock, last_fetch,
                 wake, cache, renders, rid>>
  /\ UNCHANGED <<ingestVars, storeVars, unitVars>>

\* line 72: async with self._semaphore
AcquireSemaphore(c) ==
  /\ pc[c] = "wait_sem"
  /\ SemaphoreFree(semaphore)
  /\ semaphore' = semaphore - 1
  /\ pc' = [pc EXCEPT ![c] = "wait_rate"]
  /\ UNCHANGED <<now, max_concurrent, req, result, via, url_locks, rate_lock,
                 last_fetch, wake, cache, renders, rid>>
  /\ UNCHANGED <<ingestVars, storeVars, unitVars>>

\* lines 81-88 and 74: the rate lock is acquired; with time to wait the
\* caller sleeps holding it, otherwise it stamps _last_fetch, releases the
\* rate lock and starts the render without suspending
RespectInterval(c) ==
  /\ pc[c] = "wait_rate"
  /\ rate_lock = Unlocked
  /\ LET wait_for == WaitFor(now, last_fetch) IN
       IF wait_for > 0
       THEN /\ rate_lock' = c
            /\ wake' = [wake EXCEPT ![c] = now + wait_for]
            /\ pc' = [pc EXCEPT ![c] = "sleeping"]
            /\ UNCHANGED <<last_fetch, renders, rid>>
       ELSE /\ last_fetch' = now
            /\ rate_lock' = ExitRateLock(c)
            /\ StartRender(c)
            /\ UNCHANGED wake
  /\ UNCHANGED <<now, max_concurrent, req, result, via, url_locks, semaphore,
                 cache>>
  /\ UNCHANGED <<ingestVars, storeVars, unitVars>>

\* lines 87-88 and 74: the sleep is over; stamp, release the rate lock, render
WakeUp(c) ==
  /\ pc[c] = "sleeping"
  /\ now >= wake[c]
  /\ last_fetch' = now
  /\ rate_lock' = ExitRateLock(c)
  /\ StartRender(c)
  /\ UNCHANGED <<now, max_concurrent, req, result, via, url_locks, semaphore,
                 wake, cache>>
  /\ UNCHANGED <<ingestVars, storeVars, unitVars>>

\* lines 74-78: fetch_impl returned html; the slot is released, the cache is
\* written when use_cache, the per-key lock is released, html is returned
RenderReturn(c) ==
  /\ pc[c] = "rendering"
  /\ semaphore' = ExitSemaphore(semaphore)
  /\ cache' = IF req[c].use_cache
              THEN WriteCache(cache, CachePath(req[c].url, req[c].sel), rid[c], now)
              ELSE cache
  /\ url_locks' = [url_locks EXCEPT ![LockKey(req[c])] = ExitUrlLock(c)]
  /\ result' = [result EXCEPT ![c] = rid[c]]
  /\ via' = [via EXCEPT ![c] = "render"]
  /\ renders' = [renders EXCEPT ![rid[c]].outcome = "ok"]
  /\ pc' = [pc EXCEPT ![c] = "done"]
  /\ UNCHANGED <<now, max_concurrent, req, rate_lock, last_fetch, wake, rid>>
  /\ UNCHANGED <<ingestVars, storeVars, unitVars>>

\* line 74 raising: both context managers exit, nothing is written
RenderRaise(c) ==
  /\ pc[c] = "rendering"
  /\ semaphore' = ExitSemaphore(semaphore)
  /\ url_locks' = [url_locks EXCEPT ![LockKey(req[c])] = ExitUrlLock(c)]
  /\ via' = [via EXCEPT ![c] = "error"]
  /\ renders' = [renders EXCEPT ![rid[c]].outcome = "failed"]
  /\ pc' = [pc EXCEPT ![c] = "raised"]
  /\ UNCHANGED <<now, max_concurrent, req, result, rate_lock, last_fetch,
                 wake, cache, rid>>
  /\ UNCHANGED <<ingestVars, storeVars, unitVars>>

\* the clock advances
Tick ==
  /\ now < MaxTime
  /\ now' = now + 1
  /\ UNCHANGED <<renderVars, ingestVars, storeVars, unitVars>>

Next ==
  \/ \E c \in Callers, r \in Requests : Call(c, r)
  \/ \E c \in Callers : AcquireUrlLock(c)
  \/ \E c \in Callers : AcquireSemaphore(c)
  \/ \E c \in Callers : RespectInterval(c)
  \/ \E c \in Callers : WakeUp(c)
  \/ \E c \in Callers : RenderReturn(c)
  \/ \E c \in Callers : RenderRaise(c)
  \/ Tick

Spec == Init /\ [][Next]_vars

\* The event loop runs every coroutine that is ready: a caller whose lock,
\* slot or rate lock is free goes on, a sleep ends when its time has come,
\* and every render ends, with content or with an error. Time goes on
\* while a caller sleeps.
SleepTick ==
  /\ now >= MaxTime
  /\ \E c \in Callers : pc[c] = "sleeping" /\ now < wake[c]
  /\ now' = now + 1
  /\ UNCHANGED <<renderVars, ingestVars, storeVars, unitVars>>

\* a step of a call under way, or of the clock
Progress ==
  \/ \E c \in Callers :
       \/ AcquireUrlLock(c)
       \/ AcquireSemaphore(c)
       \/ RespectInterval(c)
       \/ WakeUp(c)
       \/ RenderReturn(c)
       \/ RenderRaise(c)
  \/ Tick
  \/ SleepTick

\* the calls of the termination check: two urls, one of them fetched with
\* and without the cache
LiveRequests == { r \in Requests : r.url # <<"a", "|", "b">> }

LiveNext ==
  \/ \E c \in Callers, r \in LiveRequests : Call(c, r)
  \/ Progress

Fairness == WF_vars(Progress)

SpecLive == Init /\ [][LiveNext]_vars /\ Fairness

\* ------------------------------------------------------------------------
\* Properties of the render cache (specification Spec)
\* ------------------------------------------------------------------------
Rendering == { c \in Callers : pc[c] = "rendering" }
SlotHolders == { c \in Callers : pc[c] \in {"wait_rate", "sleeping", "rendering"} }
Called == { c \in Callers : pc[c] # "idle" }
KeyOf(c) == CachePath(req[c].url, req[c].sel)
HoldsUrlLock(c) == c \in Called /\ url_locks[LockKey(req[c])] = c
\* a cache file that exists and whose age is within the ttl
Live(k) == cache[k].exists /\ now - cache[k].timestamp <= TtlSeconds

\* every call made so far has use_cache=true and the pair of request r
OnlyCallsFor(r) ==
  /\ r.use_cache
  /\ Called # {}
  /\ \A c \in Called : req[c] = r

\* C1: when every fetch call so far has use_cache=true and the same
\* (url, wait_for_selector), no render failed, and the entry written by the
\* first render has not outlived its ttl, fetch_impl was invoked at most
\* once, exactly once as soon as a caller has returned, and every caller
\* that returned holds the content of that render.
C1_OneRenderPerKeyWithinTtl ==
  \A r \in Requests :
    ( /\ OnlyCallsFor(r)
      /\ \A i \in DOMAIN renders : renders[i].outcome # "failed"
      /\ LET k == CachePath(r.url, r.sel) IN
           cache[k].exists => (cache[k].content = 1 /\ Live(k)) )
    => /\ Len(renders) <= 1
       /\ \A c \in Called : pc[c] = "done" => (Len(renders) = 1 /\ result[c] = 1)

\* two callers of the same pair have returned, one of them after waiting
\* for the per-key lock, both with the content of the single render
C1_Witness ==
  \E r \in Requests : \E c1, c2 \in Callers :
    /\ OnlyCallsFor(r)
    /\ c1 # c2
    /\ via[c1] = "render" /\ via[c2] = "cache"
    /\ result[c1] = 1 /\ result[c2] = 1
    /\ Len(renders) = 1

\* C2: at most one render is in flight for a given cache key.
C2_OneRenderInFlightPerKey ==
  \A k \in CacheKeys : Cardinality({ c \in Rendering : KeyOf(c) = k }) <= 1

\* C3: any two render starts are at least min_interval_seconds apart, and
\* a caller that sleeps for the rate limit sleeps until exactly
\* min_interval_seconds after the previous render start.
C3_RenderStartsSpaced ==
  /\ \A i, j \in DOMAIN renders :
       i < j => renders[j].start - renders[i].start >= MinIntervalSeconds
  /\ \A c \in Callers :
       pc[c] = "sleeping" => wake[c] = last_fetch + MinIntervalSeconds

\* two renders on different keys have started, the second after a sleep
C3_Witness ==
  /\ Len(renders) >= 2
  /\ renders[1].url # renders[2].url
  /\ renders[2].start = renders[1].start + MinIntervalSeconds
  /\ \E c \in Callers : rid[c] = 2 /\ wake[c] = renders[2].start

\* C4: at most max_concurrent renders execute at the same time; the
\* semaphore counts exactly the callers inside `async with self._semaphore`,
\* so a slot comes back when a render returns and when it raises.
C4_BoundedConcurrency ==
  /\ Cardinality(Rendering) <= max_concurrent
  /\ semaphore >= 0
  /\ semaphore = max_concurrent - Cardinality(SlotHolders)

\* all slots are taken and another caller waits for one, after a failure
\* or not
C4_Witness ==
  /\ Cardinality(SlotHolders) = max_concurrent
  /\ Rendering # {}
  /\ \E c \in Callers : pc[c] = "wait_sem"

\* C5: when the render raises, the caller gets the error and no content,
\* the cache is left as it was, the per-key lock and the slot are released;
\* no lock is ever held by a call that has ended.
C5_RenderFailureReleases ==
  /\ [][\A c \in Callers :
          (pc[c] = "rendering" /\ pc'[c] = "raised") =>
            /\ via'[c] = "error"
            /\ result'[c] = NoContent
            /\ cache' = cache
            /\ url_locks'[LockKey(req[c])] = Unlocked
            /\ semaphore' = semaphore + 1]_vars
  /\ [](\A c \in Callers :
          pc[c] \in {"done", "raised"} =>
            /\ \A u \in Urls : url_locks[u] # c
            /\ rate_lock # c)
  /\ [](\A k \in CacheKeys :
          cache[k].exists =>
            /\ cache[k].content \in DOMAIN renders
            /\ renders[cache[k].content].outcome = "ok")

\* after a failed render a later fetch for the same key renders again
C5_Witness ==
  \E c1, c2 \in Callers :
    /\ pc[c1] = "raised"
    /\ pc[c2] = "rendering"
    /\ req[c2] = req[c1]
    /\ rid[c2] > rid[c1]
    /\ ~cache[KeyOf(c1)].exists

\* C6 as stated: no caller holds one of the two gates while it acquires,
\* waits for or holds the other.
C6_GatesNeverNested ==
  \A c \in Callers :
    ~(HoldsUrlLock(c) /\ (pc[c] = "wait_rate" \/ rate_lock = c))

\* C6 amended: the gates are nested in one fixed order. The rate gate is
\* acquired, waited for and held only by a caller that holds its per-key
\* gate and a slot; a caller that waits for a per-key gate holds no gate;
\* the rate gate is released before the render runs.
C6_FixedLockOrder ==
  \A c \in Callers :
    /\ (pc[c] = "wait_rate" \/ rate_lock = c) => (HoldsUrlLock(c) /\ c \in SlotHolders)
    /\ rate_lock = c => pc[c] = "sleeping"
    /\ pc[c] = "wait_lock" => (rate_lock # c /\ \A u \in Urls : url_locks[u] # c)

\* a caller sleeps with the rate gate inside its per-key gate while a caller
\* of another key waits for the rate gate
C6_Witness ==
  \E c1, c2 \in Callers :
    /\ rate_lock = c1 /\ pc[c1] = "sleeping" /\ HoldsUrlLock(c1)
    /\ pc[c2] = "wait_rate" /\ HoldsUrlLock(c2)
    /\ LockKey(req[c1]) # LockKey(req[c2])

\* C7: a fetch with use_cache=true that finds a live entry returns its
\* content in the same step, without render, gate, slot or sleep, and
\* leaves the entry and the last-render time unchanged.
C7_CacheHitFrame ==
  [][\A c \in Callers :
       ( /\ pc[c] = "idle" /\ pc'[c] # "idle"
         /\ req'[c].use_cache
         /\ Live(CachePath(req'[c].url, req'[c].sel)) )
       => /\ pc'[c] = "done"
          /\ via'[c] = "cache"
          /\ result'[c] = cache[CachePath(req'[c].url, req'[c].sel)].content
          /\ UNCHANGED <<now, max_concurrent, url_locks, semaphore,
                         rate_lock, last_fetch, wake, cache, renders, rid>>]_vars

\* a call was served the content another caller rendered, from an entry
\* whose age has reached the ttl
C7_Witness ==
  \E c \in Callers :
    /\ pc[c] = "done" /\ via[c] = "cache" /\ rid[c] = 0
    /\ cache[KeyOf(c)].exists
    /\ now - cache[KeyOf(c)].timestamp = TtlSeconds
    /\ \E d \in Callers : via[d] = "render" /\ result[d] = result[c]

\* C8: a cache entry is written only by a render that succeeded with
\* use_cache=true, with the time of writing and that render's content; a
\* call is served from the cache only while the entry's age is within the
\* ttl; a call that finds the entry expired is not served and goes on to
\* render.
C8_EntryLifecycle ==
  /\ [][\A k \in CacheKeys :
          cache'[k] # cache[k] =>
            \E c \in Callers :
              /\ pc[c] = "rendering" /\ pc'[c] = "done"
              /\ req[c].use_cache /\ KeyOf(c) = k
              /\ cache'[k] = [exists |-> TRUE, timestamp |-> now,
                              content |-> result'[c]]
              /\ via'[c] = "render"]_vars
  /\ [][\A c \in Callers :
          (pc[c] = "rendering" /\ pc'[c] = "done" /\ req[c].use_cache) =>
            cache'[KeyOf(c)] = [exists |-> TRUE, timestamp |-> now,
                                content |-> rid[c]]]_vars
  /\ [][\A c \in Callers :
          (pc'[c] = "done" /\ pc[c] # "done" /\ via'[c] = "cache") =>
            LET k == CachePath(req'[c].url, req'[c].sel) IN
              /\ Live(k)
              /\ result'[c] = cache[k].content]_vars
  /\ [][\A c \in Callers :
          ( /\ pc[c] \in {"idle", "wait_lock"} /\ pc'[c] # pc[c]
            /\ ~Live(CachePath(req'[c].url, req'[c].sel)) )
          => pc'[c] \in {"wait_lock", "wait_sem"}]_vars

\* an entry expired, the next fetch for its key rendered again and replaced
\* content and timestamp
C8_Witness ==
  \E k \in CacheKeys : \E c \in Callers :
    /\ cache[k].exists /\ cache[k].content = 2
    /\ renders[1].outcome = "ok" /\ renders[1].use_cache
    /\ CachePath(renders[1].url, renders[1].sel) = k
    /\ renders[2].url = renders[1].url /\ renders[2].sel = renders[1].sel
    /\ cache[k].timestamp > renders[1].start + TtlSeconds
    /\ via[c] = "render" /\ result[c] = 2

\* C9: content served from the cache was rendered for the caller's own
\* (url, wait_for_selector).
C9_KeySeparatesPairs ==
  \A c \in Callers :
    (pc[c] = "done" /\ via[c] = "cache") =>
      /\ renders[result[c]].url = req[c].url
      /\ renders[result[c]].sel = req[c].sel

\* ------------------------------------------------------------------------
\* Part 2: the ingestion run (app/ingest.py ingest_all,
\* scripts/update_raffles.py run_ingestion and raffle_backend/ingestion.py
\* run_ingestion) and the table the runs write to
\* ------------------------------------------------------------------------
MaxScrapers == 2
MaxRetention == 2
StartTime == 2

\* the scraper at position i of the list has source i
Sources == 1..MaxScrapers
RaffleIds == {1, 2}
Keys == Sources \X RaffleIds

\* marks a source that has no row in the table the run finds
NoRow == -1

\* the mutable columns of a row, as one value; OldTitle is what the rows
\* the run finds carry
OldTitle == 0

\* An entry as a scraper yields it: raffle id, the kind of its deadline and
\* its other fields. "aware" carries a UTC offset, "naive" none, "overflow"
\* an offset that takes the instant out of the datetime range when
\* converted to UTC.
Entry(id, dl, title) == [id |-> id, dl |-> dl, title |-> title]

\* What run() / collect() / fetch() of a scraper does: the entries it
\* yields and whether it raises (for run(), after having yielded them).
Behaviours ==
  { [raises |-> FALSE, entries |-> <<Entry(1, "aware", 1), Entry(2, "aware", 1)>>],
    [raises |-> TRUE,  entries |-> <<>>],
    [raises |-> TRUE,  entries |-> <<Entry(1, "aware", 1)>>],
    [raises |-> FALSE, entries |-> <<Entry(1, "aware", 1), Entry(2, "naive", 1)>>],
    [raises |-> FALSE, entries |-> <<Entry(1, "overflow", 1)>>],
    [raises |-> FALSE, entries |-> <<>>],
    [raises |-> FALSE, entries |-> <<Entry(1, "aware", 1), Entry(1, "aware", 2)>>] }

ScraperLists == UNION { [1..n -> Behaviours] : n \in 0..MaxScrapers }

NoSummary == [returned |-> FALSE]

\* _normalize_raffle of app/ingest.py raises on a naive deadline
\* (ValueError) and when astimezone leaves the datetime range
NormalizeRaises(e) == e.dl # "aware"

\* _ensure_deadline of update_raffles.py takes a naive deadline as UTC and
\* raises only when astimezone leaves the datetime range (OverflowError)
EnrichRaises(e) == e.dl = "overflow"

Range(seq) == { seq[i] : i \in DOMAIN seq }

\* the records made of the entries of source src, in order
RECURSIVE Records(_, _)
Records(src, entries) ==
  IF entries = <<>> THEN <<>>
  ELSE <<[source |-> src, raffle_id |-> Head(entries).id,
          title |-> Head(entries).title]>>
       \o Records(src, Tail(entries))

\* the key columns (source, raffle_id) of a record or a row
Key(r) == <<r.source, r.raffle_id>>

KeysOf(recs) == { Key(recs[i]) : i \in DOMAIN recs }

NormalizedAllOrNone(entries) ==
  IF \E i \in DOMAIN entries : NormalizeRaises(entries[i]) THEN <<>>
  ELSE entries

\* ingest_all, lines 49-50: the entries appended to `normalized` before the
\* first entry whose normalization raises
RECURSIVE NormalizedPrefix(_)
NormalizedPrefix(entries) ==
  IF entries = <<>> THEN <<>>
  ELSE IF NormalizeRaises(Head(entries)) THEN <<>>
  ELSE <<Head(entries)>> \o NormalizedPrefix(Tail(entries))

\* ingest_all, lines 47-53: the try block of scraper b ends in the except
AppScraperFails(b) ==
  b.raises \/ \E i \in DOMAIN b.entries : NormalizeRaises(b.entries[i])

OnScraperExceptionAbort(v) == "aborted"

\* the except clause of the scraper loop (ingest_all lines 51-53,
\* run_ingestion lines 94-96): log, record, go on with the next scraper
OnScraperException(v) == "scrape"

\* a call the run makes, in the order of the calls: op is "run" (a
\* scraper's run/collect/fetch), "normalize" (_normalize_raffle over the
\* entries of a scraper, enrich_records), "upsert", "prune_missing",
\* "prune_stale" or "skip_prune"; before is the table the call found
Event(op, src, cutoff, before) ==
  [op |-> op, src |-> src, at |-> now, cutoff |-> cutoff, before |-> before]

\* the row an INSERT makes of a record: updated_at is the second timestamp
\* column of raffles/db.py, stamped with the same value as last_seen
NewRow(rec, t) ==
  [source |-> rec.source, raffle_id |-> rec.raffle_id, title |-> rec.title,
   last_seen |-> t, updated_at |-> t]

UpsertOneInsertOnly(rows, rec, t) == rows \cup {NewRow(rec, t)}

\* INSERT ... ON CONFLICT(source, raffle_id) DO UPDATE SET <every other
\* column> = excluded.<column>: the row of the record's key takes the
\* record's fields and last_seen = t; with no such row, one is inserted
UpsertOne(rows, rec, t) ==
  LET conflict == { r \in rows : Key(r) = Key(rec) }
  IN IF conflict = {}
     THEN rows \cup {NewRow(rec, t)}
     ELSE { IF r \in conflict
            THEN [r EXCEPT !.title = rec.title, !.last_seen = t,
                           !.updated_at = t]
            ELSE r : r \in rows }

UpsertedPlainInsert(rows, recs, t) ==
  rows \cup { NewRow(recs[i], t) : i \in DOMAIN recs }

\* upsert_raffles / upsert_entries: the statement is executed for every
\* record in the order of the batch, all with the same timestamp t
RECURSIVE Upserted(_, _, _)
Upserted(rows, recs, t) ==
  IF recs = <<>> THEN rows
  ELSE Upserted(UpsertOne(rows, Head(recs), t), Tail(recs), t)

PruneMissingKeepsAll(rows, keys) ==
  IF keys = {} THEN rows ELSE { r \in rows : Key(r) \in keys }

\* prune_missing of app/db.py: delete every row whose key is not listed;
\* with no key at all, delete every row
PruneMissing(rows, keys) == { r \in rows : Key(r) \in keys }

PruneStaleInclusive(rows, cutoff) == { r \in rows : ~(r.last_seen <= cutoff) }

\* prune_stale of raffles/db.py, upsert_entries lines 56-60:
\* DELETE FROM raffles WHERE last_seen < cutoff
PruneStale(rows, cutoff) == { r \in rows : ~(r.last_seen < cutoff) }

RowCount(rows) == Cardinality(rows)

\* the rows of source s in a table the run finds
RowsFound(s, age) ==
  IF age = NoRow THEN {}
  ELSE { [source |-> s, raffle_id |-> id, title |-> OldTitle,
          last_seen |-> age, updated_at |-> age] : id \in RaffleIds }

\* the tables a run may find: per source no rows, old rows or recent rows
InitialStores ==
  { UNION { RowsFound(s, age[s]) : s \in Sources } :
      age \in [Sources -> {NoRow, 0, StartTime}] }

IngestInit ==
  /\ now = StartTime
  /\ RenderInit
  /\ max_concurrent = MaxConcurrent
  /\ variant \in {"app", "scripts"}
  /\ scrapers \in ScraperLists
  /\ store \in InitialStores
  /\ retention \in (IF variant = "scripts" THEN 0..MaxRetention ELSE {0})
  /\ idx = 0
  /\ executed = {}
  /\ pooled = <<>>
  /\ failures = <<>>
  /\ log = <<>>
  /\ calls = <<>>
  /\ ipc = "scrape"
  /\ counts = [affected |-> 0, deleted |-> 0]
  /\ summary = NoSummary
  /\ StoreIdle
  /\ UnitsIdle

\* one iteration of the scraper loop of ingest_all (lines 46-53)
RunScraperApp ==
  /\ variant = "app"
  /\ ipc = "scrape"
  /\ idx < Len(scrapers)
  /\ LET i == idx + 1
         b == scrapers[i]
     IN /\ executed' = executed \cup {i}
        /\ idx' = i
        /\ pooled' = pooled \o Records(i, NormalizedPrefix(b.entries))
        /\ calls' = calls \o <<Event("run", i, 0, store)>>
                          \o (IF b.entries = <<>> THEN <<>>
                              ELSE <<Event("normalize", i, 0, store)>>)
        /\ IF AppScraperFails(b)
           THEN /\ failures' = Append(failures, i)
                /\ log' = Append(log, <<"failed", i>>)
                /\ ipc' = OnScraperException(variant)
           ELSE UNCHANGED <<failures, log, ipc>>
  /\ UNCHANGED <<now, renderVars, variant, scrapers, store, retention, counts,
                 summary, storeVars, unitVars>>

\* one iteration of the scraper loop of run_ingestion (lines 91-98);
\* enrich_records runs outside the try block
RunScraperScripts ==
  /\ variant = "scripts"
  /\ ipc = "scrape"
  /\ idx < Len(scrapers)
  /\ LET i == idx + 1
         b == scrapers[i]
     IN /\ executed' = executed \cup {i}
        /\ idx' = i
        /\ IF b.raises
           THEN /\ log' = Append(log, <<"failed", i>>)
                /\ ipc' = OnScraperException(variant)
                /\ calls' = Append(calls, Event("run", i, 0, store))
                /\ UNCHANGED pooled
           ELSE /\ calls' = calls \o <<Event("run", i, 0, store),
                                       Event("normalize", i, 0, store)>>
                /\ IF \E j \in DOMAIN b.entries : EnrichRaises(b.entries[j])
                   THEN /\ ipc' = "aborted"
                        /\ UNCHANGED <<log, pooled>>
                   ELSE /\ pooled' = pooled \o Records(i, b.entries)
                        /\ UNCHANGED <<log, ipc>>
  /\ UNCHANGED <<now, renderVars, variant, scrapers, store, retention, counts,
                 summary, failures, storeVars, unitVars>>

LoopDoneEarly == idx >= 1 \/ idx = Len(scrapers)

\* the for loop over the scrapers has been through the whole list
LoopDone == idx = Len(scrapers)

\* the loop is over: database.upsert_raffles(serialized_rows) (ingest_all
\* lines 55-56), upsert_raffles(all_records) (run_ingestion line 100)
Upsert ==
  /\ variant \in {"app", "scripts"}
  /\ ipc = "scrape"
  /\ LoopDone
  /\ store' = Upserted(store, pooled, now)
  /\ counts' = [counts EXCEPT !.affected = Len(pooled)]
  /\ calls' = Append(calls, Event("upsert", 0, 0, store))
  /\ ipc' = "prune"
  /\ UNCHANGED <<now, renderVars, variant, scrapers, idx, executed, pooled,
                 failures, log, retention, summary, storeVars, unitVars>>

PruneAlways(failed) == TRUE

\* ingest_all line 59, `if not failures`
PruneAllowed(failed) == failed = <<>>

\* ingest_all lines 58-88: prune_missing when no scraper failed, then the
\* result is returned; otherwise the prune is skipped and IngestionError
\* is raised
PruneApp ==
  /\ variant = "app"
  /\ ipc = "prune"
  /\ IF PruneAllowed(failures)
     THEN /\ store' = PruneMissing(store, KeysOf(pooled))
          /\ counts' = [counts EXCEPT
                          !.deleted = RowCount(store) - RowCount(store')]
          /\ summary' = [returned |-> TRUE, ingested |-> Len(pooled),
                         deleted |-> counts'.deleted, failed |-> failures]
          /\ calls' = Append(calls, Event("prune_missing", 0, 0, store))
          /\ ipc' = "done"
          /\ UNCHANGED log
     ELSE /\ log' = Append(log, <<"skip_prune", failures>>)
          /\ calls' = Append(calls, Event("skip_prune", 0, 0, store))
          /\ ipc' = "raised"
          /\ UNCHANGED <<store, counts, summary>>
  /\ UNCHANGED <<now, renderVars, variant, scrapers, idx, executed, pooled,
                 failures, retention, storeVars, unitVars>>

\* run_ingestion lines 102-113: prune_stale(now - retention), then the
\* summary is returned
PruneScripts ==
  /\ variant = "scripts"
  /\ ipc = "prune"
  /\ store' = PruneStale(store, now - retention)
  /\ counts' = [counts EXCEPT !.deleted = RowCount(store) - RowCount(store')]
  /\ summary' = [returned |-> TRUE, scrapers |-> Len(scrapers),
                 processed |-> Len(pooled), upserted |-> counts.affected,
                 pruned |-> counts'.deleted, retention_hours |-> retention]
  /\ calls' = Append(calls, Event("prune_stale", 0, now - retention, store))
  /\ ipc' = "done"
  /\ UNCHANGED <<now, renderVars, variant, scrapers, idx, executed, pooled,
                 failures, log, retention, storeVars, unitVars>>

\* time passes during the run
IngestTick ==
  /\ ipc \in {"scrape", "prune"}
  /\ now < MaxTime
  /\ now' = now + 1
  /\ UNCHANGED <<renderVars, ingestVars, storeVars, unitVars>>

IngestNext ==
  \/ RunScraperApp
  \/ RunScraperScripts
  \/ Upsert
  \/ PruneApp
  \/ PruneScripts
  \/ IngestTick

SpecIngest == IngestInit /\ [][IngestNext]_vars

\* ------------------------------------------------------------------------
\* Properties of the ingestion run (specification SpecIngest)
\* ------------------------------------------------------------------------

RunOver == ipc \in {"done", "raised", "aborted"}

\* the scraper at position i ended in the except clause of the loop
ScraperFailed(i) ==
  IF variant = "app" THEN AppScraperFails(scrapers[i]) ELSE scrapers[i].raises

CallsOf(op) == { j \in DOMAIN calls : calls[j].op = op }

\* C11: a run that has ended has called the store's upsert, also when
\* scrapers failed, and every entry of a scraper that did not fail was in
\* the batch passed to it.
C11_UpsertAlways ==
  RunOver =>
    /\ CallsOf("upsert") # {}
    /\ \A i \in 1..Len(scrapers) :
         ~ScraperFailed(i) =>
           Range(Records(i, scrapers[i].entries)) \subseteq Range(pooled)

\* ------------------------------------------------------------------------
\* The run of raffle_backend/ingestion.py (run_ingestion) over
\* raffle_backend/repository.py (upsert_entries)
\* ------------------------------------------------------------------------
BackendInit ==
  /\ now = StartTime
  /\ RenderInit
  /\ max_concurrent = MaxConcurrent
  /\ variant = "backend"
  /\ scrapers \in ScraperLists
  /\ store \in InitialStores
  /\ retention \in 0..MaxRetention
  /\ idx = 0
  /\ executed = {}
  /\ pooled = <<>>
  /\ failures = <<>>
  /\ log = <<>>
  /\ calls = <<>>
  /\ ipc = "scrape"
  /\ counts = [affected |-> 0, deleted |-> 0]
  /\ summary = NoSummary
  /\ StoreIdle
  /\ UnitsIdle

AfterFetchCaught(raised) == "scrape"

\* run_ingestion lines 31-33: the loop has no try block, so an exception
\* of fetch() leaves the loop and the function
AfterFetch(raised) == IF raised THEN "aborted" ELSE "scrape"

\* one iteration of the loop of run_ingestion (lines 31-33): no try block,
\* an exception of fetch() leaves the run
RunScraperBackend ==
  /\ variant = "backend"
  /\ ipc = "scrape"
  /\ idx < Len(scrapers)
  /\ LET i == idx + 1
         b == scrapers[i]
     IN /\ executed' = executed \cup {i}
        /\ idx' = i
        /\ calls' = Append(calls, Event("run", i, 0, store))
        /\ ipc' = AfterFetch(b.raises)
        /\ IF b.raises
           THEN UNCHANGED pooled
           ELSE pooled' = pooled \o Records(i, b.entries)
  /\ UNCHANGED <<now, renderVars, variant, scrapers, store, retention, counts,
                 summary, failures, log, storeVars, unitVars>>

\* run_ingestion lines 35-37 with upsert_entries: prune_before is computed
\* first, then upsert_entries stamps the rows with the time it reads (d
\* later), skips the statement for an empty batch, and deletes the rows
\* with last_seen < prune_before
UpsertEntries ==
  /\ variant = "backend"
  /\ ipc = "scrape"
  /\ LoopDone
  /\ \E d \in 0..(MaxTime - now) :
       LET prune_before == now - retention
           t == now + d
           written == IF pooled # <<>> THEN Upserted(store, pooled, t)
                      ELSE store
       IN /\ now' = t
          /\ store' = PruneStale(written, prune_before)
          /\ counts' = [affected |-> Len(pooled),
                        deleted |-> RowCount(written) - RowCount(store')]
          /\ calls' = calls \o
               <<[Event("upsert", 0, 0, store) EXCEPT !.at = t],
                 Event("prune_stale", 0, prune_before, written)>>
  /\ summary' = [returned |-> TRUE, processed |-> Len(pooled)]
  /\ ipc' = "done"
  /\ UNCHANGED <<renderVars, variant, scrapers, idx, executed, pooled,
                 failures, log, retention, storeVars, unitVars>>

BackendNext ==
  \/ RunScraperBackend
  \/ UpsertEntries
  \/ IngestTick

\* the runs of the three coordinators
SpecIngestAll ==
  (IngestInit \/ BackendInit) /\ [][IngestNext \/ BackendNext]_vars

StoredKeys(rows) == { Key(r) : r \in rows }

\* C32: when a run has returned, every key it upserted has a row in the
\* table, whatever the retention window (zero included): the prune step of
\* the run deleted none of the rows the run itself had just written.
C32_UpsertedSurvivePrune ==
  ipc = "done" => KeysOf(pooled) \subseteq StoredKeys(store)

\* the table the run found, once the run has made a call
StoreFound == calls[1].before

\* row r of the table the run found is gone although no prune by
\* staleness found it older than its cutoff
DeletedForAbsence(r) ==
  /\ r \in StoreFound
  /\ ~\E q \in store : Key(q) = Key(r)
  /\ ~\E j \in CallsOf("prune_stale") : r.last_seen < calls[j].cutoff

\* C13: when a run in which a scraper failed has ended, the entries of
\* every scraper that did not fail were passed to the store's upsert, the
\* failing source is recorded as failed (log; `failures` in ingest_all),
\* and no row the run found for the failed source was deleted for its key
\* being absent from the records of the run.
C13_PartialFailure ==
  \A i \in 1..Len(scrapers) :
    (RunOver /\ i \in executed /\ ScraperFailed(i)) =>
      /\ CallsOf("upsert") # {}
      /\ \A k \in 1..Len(scrapers) :
           ~ScraperFailed(k) =>
             Range(Records(k, scrapers[k].entries)) \subseteq Range(pooled)
      /\ <<"failed", i>> \in Range(log)
      /\ variant = "app" => i \in Range(failures)
      /\ \A r \in StoreFound : r.source = i => ~DeletedForAbsence(r)

\* the sources whose scraper ended in the except clause, so far
FailedSources == { i \in executed : ScraperFailed(i) }

\* C14: a run that has ended returned a summary that carries the list of
\* the failed sources (empty when none failed) next to its counts.
C14_SummaryListsFailed ==
  RunOver =>
    /\ summary.returned
    /\ "failed" \in DOMAIN summary
    /\ Range(summary.failed) = FailedSources

\* C33: a run of ingest_all that has ended raised IngestionError exactly
\* when a scraper failed, and then after the upsert, whose rows are in the
\* table; prune_missing was called exactly when no scraper failed, and
\* never before the end of the scraper loop; a run that raised left a row
\* for every key the table had when the run began.
C33_RaisesIffFailed ==
  variant = "app" =>
    /\ ipc # "aborted"
    /\ RunOver => (ipc = "raised" <=> FailedSources # {})
    /\ RunOver => (CallsOf("prune_missing") # {} <=> FailedSources = {})
    /\ ~RunOver => CallsOf("prune_missing") = {}
    /\ ipc = "raised" =>
         /\ CallsOf("upsert") # {}
         /\ KeysOf(pooled) \subseteq StoredKeys(store)
         /\ StoredKeys(StoreFound) \subseteq StoredKeys(store)

\* a run in which a scraper failed upserted an entry, raised, and left a
\* row whose key none of its entries has
C33_Witness ==
  /\ variant = "app"
  /\ ipc = "raised"
  /\ pooled # <<>>
  /\ \E r \in store : Key(r) \notin KeysOf(pooled) /\ r \in StoreFound

\* the keys of the entries the scrapers of the run yielded
Produced ==
  UNION { KeysOf(Records(i, scrapers[i].entries)) : i \in 1..Len(scrapers) }

\* C34: when a run of ingest_all in which no scraper failed has returned,
\* the keys of the rows of the table are exactly the keys of the entries
\* the run produced: a row of any other key is gone, and so is every row
\* when the run produced no entry.
C34_StoreMirrorsRun ==
  (variant = "app" /\ ipc = "done") =>
    /\ FailedSources = {}
    /\ StoredKeys(store) = Produced
    /\ Produced = {} => store = {}

\* a run without failure inserted a row, and deleted a row it had found,
\* of a source whose scraper yielded other entries
C34_Witness ==
  /\ variant = "app"
  /\ ipc = "done"
  /\ StoredKeys(store) \ StoredKeys(StoreFound) # {}
  /\ \E r \in StoreFound :
       /\ Key(r) \notin StoredKeys(store)
       /\ \E q \in store : q.source = r.source

\* the records of the entries scraper i yielded before the first entry
\* whose normalization raised
CollectedBefore(i) ==
  LET entries == scrapers[i].entries
      recs == Records(i, entries)
  IN { recs[k] : k \in { k \in DOMAIN entries :
                          \A m \in 1..k : ~NormalizeRaises(entries[m]) } }

\* C35: in ingest_all the entries a scraper yielded before it failed are
\* in the pooled list, and once the upsert is done each of them has a row
\* stamped by that upsert, although its source is among the failures.
C35_CollectedBeforeFailureKept ==
  variant = "app" =>
    \A i \in FailedSources :
      /\ i \in Range(failures)
      /\ \A rec \in CollectedBefore(i) :
           /\ rec \in Range(pooled)
           /\ \A j \in CallsOf("upsert") :
                \E r \in store : Key(r) = Key(rec) /\ r.last_seen = calls[j].at

\* a scraper yielded an entry and then one whose normalization raised; the
\* run raised, and the row it had found for the first entry is refreshed
C35_Witness ==
  /\ variant = "app"
  /\ ipc = "raised"
  /\ \E i \in FailedSources :
       /\ ~scrapers[i].raises
       /\ \E rec \in CollectedBefore(i) :
            \E r \in store, old \in StoreFound :
              /\ Key(r) = Key(rec) /\ Key(old) = Key(rec)
              /\ old.last_seen < r.last_seen

\* C36: in run_ingestion of raffle_backend, once the fetch of a scraper
\* has raised the run is over with that exception: no scraper after it is
\* run, no upsert and no prune is called, nothing is returned, and the
\* table is the one the run found, whatever the scrapers before it
\* yielded.
C36_FetchExceptionAbortsRun ==
  \A i \in executed :
    (variant = "backend" /\ scrapers[i].raises) =>
      /\ ipc = "aborted"
      /\ idx = i
      /\ executed = 1..i
      /\ \A j \in DOMAIN calls : calls[j].op = "run"
      /\ summary = NoSummary
      /\ store = StoreFound

\* the second scraper raised after the first had yielded entries for a
\* table that holds rows
C36_Witness ==
  /\ variant = "backend"
  /\ ipc = "aborted"
  /\ idx = 2
  /\ pooled # <<>>
  /\ store # {}

StoreOps == {"upsert", "prune_missing", "prune_stale", "skip_prune"}
PruneOps == {"prune_missing", "prune_stale", "skip_prune"}

\* the store calls come after the whole scraper loop, and the prune (or
\* its skipping) after the upsert, after which the run is over
StoreCallsInOrder ==
  /\ \A j \in DOMAIN calls :
       calls[j].op \in StoreOps =>
         /\ executed = 1..Len(scrapers)
         /\ \A k \in DOMAIN calls :
              calls[k].op \in {"run", "normalize"} => k < j
  /\ \A j \in DOMAIN calls :
       calls[j].op \in PruneOps =>
         /\ j = Len(calls)
         /\ calls[j - 1].op = "upsert"
  /\ Cardinality(CallsOf("upsert")) <= 1
  /\ ipc \in {"done", "raised"} => calls[Len(calls)].op \in PruneOps

\* C15 as stated: Normalize is a phase that follows the phase RunScrapers,
\* so every normalization comes after the last scraper has run and before
\* the upsert, which comes before the prune or its skipping.
C15_PhasesInOrder ==
  /\ StoreCallsInOrder
  /\ \A j \in CallsOf("normalize") : \A k \in CallsOf("run") : k < j

\* C15 amended: the entries of a scraper are normalized inside the scraper
\* loop, right after that scraper has run and possibly before the scrapers
\* after it run; all scraping and normalization comes before the upsert,
\* and the upsert before the prune or its skipping, which ends the run.
C15_CallOrder ==
  /\ StoreCallsInOrder
  /\ \A j \in CallsOf("normalize") :
       /\ j > 1
       /\ calls[j - 1].op = "run"
       /\ calls[j - 1].src = calls[j].src

\* a run over two scrapers that both returned entries went through
\* scraping, normalization, upsert and prune
C15_Witness ==
  /\ ipc = "done"
  /\ Len(calls) = 6
  /\ calls[2].op = "normalize" /\ calls[3].op = "run"
  /\ calls[4].op = "normalize" /\ calls[5].op = "upsert"
  /\ calls[6].op \in {"prune_missing", "prune_stale"}

\* ------------------------------------------------------------------------
\* Part 3 (specification SpecStore): the table raffles under any sequence
\* of upsert and prune calls (raffles/db.py, app/db.py,
\* raffle_backend/repository.py)
\* ------------------------------------------------------------------------
MaxBatch == 2
Titles == {1, 2}

\* the records the callers pass: two keys, two values of the other fields
StoreRecords ==
  { [source |-> 1, raffle_id |-> id, title |-> t] :
      id \in RaffleIds, t \in Titles }

Batches == UNION { [1..n -> StoreRecords] : n \in 0..MaxBatch }

\* init_db / _initialize / initialise: CREATE TABLE IF NOT EXISTS
StoreInit ==
  /\ now = 0
  /\ RenderInit
  /\ max_concurrent = MaxConcurrent
  /\ IngestIdle
  /\ StoreIdle
  /\ UnitsIdle

\* upsert_raffles(records) / upsert_entries(entries)
UpsertRaffles(batch) ==
  /\ store' = Upserted(store, batch, now)
  /\ last_call' = [op |-> "upsert", batch |-> batch, cutoff |-> 0,
                   hit |-> { Key(r) : r \in store } \cap KeysOf(batch),
                   again |-> last_call.op = "upsert"
                             /\ last_call.batch = batch,
                   present |-> {}]
  /\ UNCHANGED <<now, renderVars, runVars, unitVars>>

\* prune_stale(last_seen_before)
PruneStaleCall(cutoff) ==
  /\ store' = PruneStale(store, cutoff)
  /\ last_call' = [op |-> "prune_stale", batch |-> <<>>, cutoff |-> cutoff,
                   hit |-> {}, again |-> FALSE, present |-> {}]
  /\ UNCHANGED <<now, renderVars, runVars, unitVars>>

\* prune_missing(present_keys)
PruneMissingCall(keys) ==
  /\ store' = PruneMissing(store, keys)
  /\ last_call' = [op |-> "prune_missing", batch |-> <<>>, cutoff |-> 0,
                   hit |-> {}, again |-> FALSE, present |-> keys]
  /\ UNCHANGED <<now, renderVars, runVars, unitVars>>

\* time passes between two calls
StoreTick ==
  /\ now < MaxTime
  /\ now' = now + 1
  /\ UNCHANGED <<renderVars, ingestVars, storeVars, unitVars>>

StoreNext ==
  \/ \E batch \in Batches : UpsertRaffles(batch)
  \/ \E cutoff \in 0..MaxTime : PruneStaleCall(cutoff)
  \/ \E keys \in SUBSET { Key(r) : r \in StoreRecords } : PruneMissingCall(keys)
  \/ StoreTick

SpecStore == StoreInit /\ [][StoreNext]_vars

\* ------------------------------------------------------------------------
\* Properties of the table (specification SpecStore)
\* ------------------------------------------------------------------------
OneRowPerKey(rows) == \A r, q \in rows : Key(r) = Key(q) => r = q

RowKeys(rows) == { Key(r) : r \in rows }

\* the record of the batch that is last among those of key k
LastOfKey(batch, k) ==
  batch[CHOOSE i \in DOMAIN batch :
          /\ Key(batch[i]) = k
          /\ \A j \in DOMAIN batch : Key(batch[j]) = k => j <= i]

\* the step is an upsert call, of the batch last_call'.batch
UpsertStep ==
  /\ last_call'.op = "upsert"
  /\ now' = now

\* C16: the table never holds two rows of one (source, raffle_id); an
\* upsert leaves, for every key of its batch, one row that carries the
\* fields of the last record of that key and last_seen = now, adds no
\* other key and leaves the rows of the other keys as they were.
C16_UpsertByKey ==
  /\ []OneRowPerKey(store)
  /\ [][UpsertStep =>
          /\ RowKeys(store') = RowKeys(store) \cup KeysOf(last_call'.batch)
          /\ \A k \in KeysOf(last_call'.batch) :
               \E r \in store' :
                 /\ Key(r) = k
                 /\ r.title = LastOfKey(last_call'.batch, k).title
                 /\ r.last_seen = now
          /\ \A r \in store :
               Key(r) \notin KeysOf(last_call'.batch) => r \in store'
          /\ Cardinality(store') = Cardinality(RowKeys(store'))]_vars

\* an upsert whose batch has one key twice, with different fields, found a
\* row of that key written earlier and left one row with the fields of the
\* second record
C16_Witness ==
  /\ last_call.op = "upsert"
  /\ Len(last_call.batch) = 2
  /\ Key(last_call.batch[1]) = Key(last_call.batch[2])
  /\ last_call.batch[1].title # last_call.batch[2].title
  /\ Key(last_call.batch[1]) \in last_call.hit
  /\ now > 0
  /\ \E r \in store :
       /\ Key(r) = Key(last_call.batch[1])
       /\ r.title = last_call.batch[2].title
       /\ r.last_seen = now
  /\ Cardinality(store) = 2

\* a row without last_seen
WithoutLastSeen(r) == [source |-> r.source, raffle_id |-> r.raffle_id,
                       title |-> r.title, updated_at |-> r.updated_at]

\* a row without its timestamps last_seen and updated_at
Untimed(r) == [source |-> r.source, raffle_id |-> r.raffle_id,
               title |-> r.title]

\* the step upserts the batch that the call before it upserted
SecondUpsert ==
  /\ last_call.op = "upsert"
  /\ UpsertStep
  /\ last_call'.batch = last_call.batch

MaxTickets == 3

\* the arguments of the call in tests/test_utils.py
ExampleTotal == 500
ExampleRemaining == 150

\* parse_int gives None or a non-negative integer
TicketCounts == {None} \cup 0..MaxTickets \cup {ExampleTotal, ExampleRemaining}

Max(a, b) == IF a >= b THEN a ELSE b

\* sold / total as a fraction <<numerator, denominator>>, after
\* min(max(., 0.0), 1.0)
Clamped(sold, total) ==
  IF sold * total <= 0 THEN <<0, 1>>
  ELSE IF (IF total > 0 THEN sold >= total ELSE sold <= total) THEN <<1, 1>>
  ELSE <<sold, total>>

\* two sold_ratio values are the same number (or both None)
RatioEq(a, b) ==
  /\ (a[2] = 0) = (b[2] = 0)
  /\ a[1] * b[2] = b[1] * a[2]

NormalizeRecomputesTotal(total, sold, remaining) ==
  LET sold1 == IF sold = None /\ total # None /\ remaining # None
               THEN Max(total - remaining, 0) ELSE sold
      remaining1 == IF remaining = None /\ total # None /\ sold1 # None
                    THEN Max(total - sold1, 0) ELSE remaining
      total1 == IF sold # None /\ remaining # None
                THEN sold + remaining ELSE total
  IN [total |-> total1, sold |-> sold1, remaining |-> remaining1,
      sold_ratio |-> IF sold1 # None /\ total1 # None /\ total1 # 0
                     THEN Clamped(sold1, total1) ELSE NoRatio]

NormalizeUnclamped(total, sold, remaining) ==
  LET total1 == IF total = None /\ sold # None /\ remaining # None
                THEN sold + remaining ELSE total
      sold1 == IF sold = None /\ total1 # None /\ remaining # None
               THEN total1 - remaining ELSE sold
      remaining1 == IF remaining = None /\ total1 # None /\ sold1 # None
                    THEN total1 - sold1 ELSE remaining
  IN [total |-> total1, sold |-> sold1, remaining |-> remaining1,
      sold_ratio |-> IF sold1 # None /\ total1 # None /\ total1 # 0
                     THEN Clamped(sold1, total1) ELSE NoRatio]

\* normalize_ticket_metrics, lines 87-99: the three assignments in the
\* order of the code, each seeing the ones before it, then sold_ratio
\* under `if sold is not None and total` (total neither None nor 0)
NormalizeTicketMetrics(total, sold, remaining) ==
  LET total1 == IF total = None /\ sold # None /\ remaining # None
                THEN sold + remaining ELSE total
      sold1 == IF sold = None /\ total1 # None /\ remaining # None
               THEN Max(total1 - remaining, 0) ELSE sold
      remaining1 == IF remaining = None /\ total1 # None /\ sold1 # None
                    THEN Max(total1 - sold1, 0) ELSE remaining
  IN [total |-> total1, sold |-> sold1, remaining |-> remaining1,
      sold_ratio |-> IF sold1 # None /\ total1 # None /\ total1 # 0
                     THEN Clamped(sold1, total1) ELSE NoRatio]

NormalizeInit ==
  /\ now = 0
  /\ RenderInit
  /\ max_concurrent = MaxConcurrent
  /\ IngestIdle
  /\ StoreIdle
  /\ given \in [total : TicketCounts, sold : TicketCounts,
                remaining : TicketCounts, sold_ratio : {NoRatio}]
  /\ OtherUnitsIdle("normalize")
  /\ metrics = NoMetrics
  /\ passes = 0

\* _build_competition line 135: the counts of the card are normalized
Normalize ==
  /\ passes = 0
  /\ metrics' = NormalizeTicketMetrics(given.total, given.sold,
                                       given.remaining)
  /\ passes' = 1
  /\ UNCHANGED <<now, renderVars, ingestVars, storeVars, given>>
  /\ OtherUnitsUnchanged("normalize")

\* the metrics returned are passed to normalize_ticket_metrics again
Renormalize ==
  /\ passes = 1
  /\ metrics' = NormalizeTicketMetrics(metrics.total, metrics.sold,
                                       metrics.remaining)
  /\ passes' = 2
  /\ UNCHANGED <<now, renderVars, ingestVars, storeVars, given>>
  /\ OtherUnitsUnchanged("normalize")

NormalizeNext == Normalize \/ Renormalize

SpecNormalize == NormalizeInit /\ [][NormalizeNext]_vars

\* ------------------------------------------------------------------------
\* Properties of normalize_ticket_metrics (specification SpecNormalize)
\* ------------------------------------------------------------------------
Nulls(m) ==
  Cardinality({ f \in {"total", "sold", "remaining"} : m[f] = None })

\* C18: for arguments with at most one None, whenever total, sold and
\* remaining of the result are all known, total = sold + remaining.
C18_TotalIsSum ==
  (passes >= 1 /\ Nulls(given) <= 1 /\ Nulls(metrics) = 0) =>
    metrics.total = metrics.sold + metrics.remaining

\* the fields of m that are None
Missing(m) == { f \in {"total", "sold", "remaining"} : m[f] = None }

\* the reference of the specification, by the field that is missing: the
\* one missing field is inferred from the two given ones, given fields
\* stay, and with two or three fields missing nothing can be inferred
RefCounts(m) ==
  CASE Missing(m) = {"total"} ->
         [m EXCEPT !.total = m.sold + m.remaining]
    [] Missing(m) = {"sold"} ->
         [m EXCEPT !.sold = Max(m.total - m.remaining, 0)]
    [] Missing(m) = {"remaining"} ->
         [m EXCEPT !.remaining = Max(m.total - m.sold, 0)]
    [] OTHER -> m

\* clamp(sold / total, 0, 1) when sold is known and total is positive
RefRatio(m) ==
  IF m.sold = None \/ m.total = None \/ m.total <= 0 THEN NoRatio
  ELSE IF m.sold >= m.total THEN <<1, 1>>
  ELSE IF m.sold <= 0 THEN <<0, 1>>
  ELSE <<m.sold, m.total>>

ExampleGiven ==
  [total |-> ExampleTotal, sold |-> None, remaining |-> ExampleRemaining,
   sold_ratio |-> NoRatio]

\* C19: the result of normalize_ticket_metrics is the result of the
\* reference: the missing field filled from the two given ones (total as
\* sold + remaining, sold as max(total - remaining, 0), remaining as
\* max(total - sold, 0)), given fields unchanged, sold_ratio the clamped
\* quotient when sold is known and total positive and None otherwise; for
\* total = 500 and remaining = 150 it has sold = 350 and sold_ratio 0.7.
C19_MatchesReference ==
  passes = 1 =>
    /\ metrics.total = RefCounts(given).total
    /\ metrics.sold = RefCounts(given).sold
    /\ metrics.remaining = RefCounts(given).remaining
    /\ RatioEq(metrics.sold_ratio, RefRatio(RefCounts(given)))
    /\ \A f \in {"total", "sold", "remaining"} :
         given[f] # None => metrics[f] = given[f]
    /\ given = ExampleGiven =>
         /\ metrics.sold = 350
         /\ RatioEq(metrics.sold_ratio, <<7, 10>>)

\* the call of the test was made and sold was inferred
C19_Witness ==
  /\ passes = 1
  /\ given = ExampleGiven
  /\ metrics.sold = 350
  /\ metrics.total = 500
  /\ metrics.remaining = 150

\* C20: normalizing the total, sold and remaining of a result again
\* returns the same total, sold, remaining and sold_ratio.
C20_NormalizeIdempotent ==
  [][(passes = 1 /\ passes' = 2) => metrics' = metrics]_vars

\* a result in which a field was inferred has been normalized again
C20_Witness ==
  /\ passes = 2
  /\ Nulls(given) = 1
  /\ Nulls(metrics) = 0
  /\ metrics.sold_ratio # NoRatio

\* ------------------------------------------------------------------------
\* Part 5 (specification SpecOdds): _compute_odds of
\* scripts/update_raffles.py
\* ------------------------------------------------------------------------
MaxTotal == 9

\* The floats of the computation keep FloatFractionBits bits after the
\* binary point for values in [0.5, 1] (an IEEE double keeps 53); the model
\* keeps fewer, so that the rounding of 1.0 - 1.0 / total shows at totals
\* whose powers the model checker can compute.
FloatFractionBits == 4
FloatScale == 2 ^ FloatFractionBits

\* a negative total_tickets, and one so large that 1.0 - 1.0 / total
\* rounds to 1.0
NegativeTotal == -2
HugeTotal == 2 * FloatScale + 1

OddsTotals == {None, NegativeTotal} \cup 0..MaxTotal \cup {HugeTotal}

\* values the two odds fields may carry before the computation
StaleProbabilities == {NoRatio, <<1, 2>>, <<1, 3>>}
StaleMinTickets == {None, 1, 5}

\* a / b rounded to the nearest integer
Rounded(a, b) == (2 * a + b) \div (2 * b)

\* probability_of_not_winning = 1.0 - 1.0 / total (line 65) as a float:
\* its numerator over FloatScale
NotWinning(total) == Rounded(FloatScale * (total - 1), total)

\* max(1, math.ceil(math.log(0.5) / math.log(q))) for the float
\* q = num / FloatScale with 0 < q < 1: the ceiling of the quotient of the
\* logarithms is the first n with q^n <= 0.5
RECURSIVE CeilLogQuotient(_, _)
CeilLogQuotient(num, n) ==
  IF 2 * num ^ n <= FloatScale ^ n THEN n ELSE CeilLogQuotient(num, n + 1)

OddsKeepStale(rec) ==
  IF rec.total_tickets = None \/ rec.total_tickets <= 0
  THEN [rec |-> rec, outcome |-> "returned"]
  ELSE [rec |-> [rec EXCEPT
                   !.win_probability_single_ticket = <<1, rec.total_tickets>>,
                   !.min_tickets_for_half_chance = 1],
        outcome |-> "returned"]

\* _compute_odds, lines 58-71: the record it leaves and how it ends.
\* math.log(1.0) is 0.0, so a probability_of_not_winning that rounded to
\* 1.0 makes line 70 raise ZeroDivisionError after line 64 was executed.
OddsOf(rec) ==
  LET total == rec.total_tickets
  IN IF total = None \/ total = 0 \/ total <= 0
     THEN [rec |-> [rec EXCEPT !.win_probability_single_ticket = NoRatio,
                               !.min_tickets_for_half_chance = None],
           outcome |-> "returned"]
     ELSE LET won == [rec EXCEPT !.win_probability_single_ticket = <<1, total>>]
              q == NotWinning(total)
          IN IF q <= 0
             THEN [rec |-> [won EXCEPT !.min_tickets_for_half_chance = 1],
                   outcome |-> "returned"]
             ELSE IF q = FloatScale
             THEN [rec |-> won, outcome |-> "raised"]
             ELSE [rec |-> [won EXCEPT !.min_tickets_for_half_chance =
                                         Max(1, CeilLogQuotient(q, 1))],
                   outcome |-> "returned"]

OddsInit ==
  /\ now = 0
  /\ RenderInit
  /\ max_concurrent = MaxConcurrent
  /\ IngestIdle
  /\ StoreIdle
  /\ OtherUnitsIdle("odds")
  /\ record \in [total_tickets : OddsTotals,
                 win_probability_single_ticket : StaleProbabilities,
                 min_tickets_for_half_chance : StaleMinTickets]
  /\ opc = "start"

\* enrich_records line 77: _compute_odds(record)
ComputeOdds ==
  /\ opc = "start"
  /\ record' = OddsOf(record).rec
  /\ opc' = OddsOf(record).outcome
  /\ UNCHANGED <<now, renderVars, ingestVars, storeVars>>
  /\ OtherUnitsUnchanged("odds")

OddsNext == ComputeOdds

SpecOdds == OddsInit /\ [][OddsNext]_vars

\* ------------------------------------------------------------------------
\* Properties of _compute_odds (specification SpecOdds)
\* ------------------------------------------------------------------------
NoOdds(total) == total = None \/ total <= 0

\* C21: after the computation win_probability_single_ticket is None iff
\* total_tickets is None or <= 0, min_tickets_for_half_chance is None in
\* the same cases (whatever the two fields carried before), and for
\* total_tickets = 1 the probability is 1 and min_tickets_for_half_chance
\* is 1.
C21_OddsNullCases ==
  opc = "returned" =>
    /\ (record.win_probability_single_ticket = NoRatio)
         <=> NoOdds(record.total_tickets)
    /\ (record.min_tickets_for_half_chance = None)
         <=> NoOdds(record.total_tickets)
    /\ record.total_tickets = 1 =>
         /\ RatioEq(record.win_probability_single_ticket, <<1, 1>>)
         /\ record.min_tickets_for_half_chance = 1

\* the odds of a record without tickets were computed
C21_Witness ==
  /\ opc = "returned"
  /\ record.total_tickets = 0
  /\ record.win_probability_single_ticket = NoRatio
  /\ record.min_tickets_for_half_chance = None

\* C22: for total_tickets >= 2 the computed min_tickets_for_half_chance is
\* the smallest n >= 1 with 2 * (total - 1)^n <= total^n.
C22_SmallestHalfChance ==
  (opc = "returned" /\ record.total_tickets >= 2) =>
    LET total == record.total_tickets
        n == record.min_tickets_for_half_chance
    IN /\ n >= 1
       /\ 2 * (total - 1) ^ n <= total ^ n
       /\ n = 1 \/ ~(2 * (total - 1) ^ (n - 1) <= total ^ (n - 1))

\* ========================================================================
\* Part 6: parse_countdown_text of scraper/utils.py, which calls parse of
\* dateutil/parser.py (fuzzy=True) and then looks for a countdown
\* ========================================================================

\* A text is a sequence of tokens separated by white space.  A token is
\*   a word      text that no pattern matches ("Ends", "in", ","),
\*   a unit      a count with a unit ("2 days"),
\*   an ISO date "2024-MM-DDT20:00:00" with or without UTC offset, or
\*   a slash date "A/B/2024 20:00".
MaxTokens == 3
Counts == {2, 3}
\* a count of days that leaves the range of datetime (year 9999)
HugeDays == 3000000
UnitNames == <<"days", "hours", "minutes", "seconds">>
UnitSeconds == <<86400, 3600, 60, 1>>
DaysInMonth == <<31, 29, 31, 30, 31, 30, 31, 31, 30, 31, 30, 31>>
MonthsInYear == Len(DaysInMonth)
ExampleMonth == 5
ExampleDay == 12
ExampleHour == 20
NoSuchMonth == 13
PlusTwo == 2

Token(kind, unit, n, a, b, aware, off) ==
  [kind |-> kind, unit |-> unit, n |-> n, a |-> a, b |-> b,
   aware |-> aware, off |-> off]

Word == Token("word", "", 0, 0, 0, FALSE, 0)
UnitToken(unit, n) == Token("unit", unit, n, 0, 0, FALSE, 0)
IsoToken(month, day, aware, off) == Token("iso", "", 0, month, day, aware, off)
SlashToken(a, b) == Token("slash", "", 0, a, b, FALSE, 0)

UnitTokens ==
  { UnitToken(UnitNames[i], n) : i \in DOMAIN UnitNames, n \in Counts }
    \cup { UnitToken("days", HugeDays) }
\* naive, "Z" and "+02:00"; and a date-shaped text that is no date
IsoTokens ==
  { IsoToken(ExampleMonth, ExampleDay, FALSE, 0),
    IsoToken(ExampleMonth, ExampleDay, TRUE, 0),
    IsoToken(ExampleMonth, ExampleDay, TRUE, PlusTwo),
    IsoToken(NoSuchMonth, ExampleDay, FALSE, 0) }
\* "5/12/2024" reads as day/month and month/day, "5/13/2024" as month/day
\* only, "13/13/2024" as neither
SlashTokens ==
  { SlashToken(ExampleMonth, ExampleDay),
    SlashToken(ExampleMonth, NoSuchMonth),
    SlashToken(NoSuchMonth, NoSuchMonth) }
Tokens == {Word} \cup UnitTokens \cup IsoTokens \cup SlashTokens
Texts == UNION { [1..n -> Tokens] : n \in 0..MaxTokens }

UnitIndex(unit) == CHOOSE i \in DOMAIN UnitNames : UnitNames[i] = unit

RECURSIVE DaysBefore(_)
DaysBefore(month) ==
  IF month = 1 THEN 0 ELSE DaysBefore(month - 1) + DaysInMonth[month - 1]

\* seconds from 2024-01-01T00:00:00 to the wall-clock time
Wall(month, day, hour) == ((DaysBefore(month) + day - 1) * 24 + hour) * 3600

\* now of tests/test_utils.py, 2024-05-01T00:00:00Z, and a later one
ExampleNow == Wall(5, 1, 0)
LaterNow == Wall(12, 1, 0)
Nows == {ExampleNow, LaterNow}

ValidDate(month, day) ==
  /\ month \in 1..MonthsInYear
  /\ day \in 1..DaysInMonth[month]

\* a datetime: wall-clock time, tzinfo set or not, and its offset in hours
NoParse == [ok |-> FALSE, at |-> 0, aware |-> FALSE, off |-> 0]
Parsed(month, day, hour, aware, off) ==
  [ok |-> TRUE, at |-> Wall(month, day, hour), aware |-> aware, off |-> off]

\* datetime.fromisoformat on the whole text keeps the offset written
FromIsoFormat(tok) ==
  IF tok.kind = "iso" /\ ValidDate(tok.a, tok.b)
    THEN Parsed(tok.a, tok.b, ExampleHour, tok.aware, tok.off)
    ELSE NoParse

\* the patterns of _PATTERNS for A/B/YYYY, in list order:
\* "%d/%m/%Y %H:%M" before "%m/%d/%Y %H:%M"
SlashPatterns == <<"%d/%m", "%m/%d">>

\* datetime.strptime with one pattern; the datetime is naive
Strptime(tok, pattern) ==
  IF tok.kind # "slash" THEN NoParse
  ELSE IF pattern = "%d/%m"
    THEN IF ValidDate(tok.b, tok.a)
           THEN Parsed(tok.b, tok.a, ExampleHour, FALSE, 0) ELSE NoParse
    ELSE IF ValidDate(tok.a, tok.b)
           THEN Parsed(tok.a, tok.b, ExampleHour, FALSE, 0) ELSE NoParse

RECURSIVE FirstPattern(_, _, _)
\* the first pattern from position i on that parses wins
FirstPattern(tok, patterns, i) ==
  IF i > Len(patterns) THEN NoParse
  ELSE IF Strptime(tok, patterns[i]).ok THEN Strptime(tok, patterns[i])
  ELSE FirstPattern(tok, patterns, i + 1)

\* parse, lines 35-46: the whole text is one date
Absolute(txt) ==
  IF Len(txt) # 1 THEN NoParse
  ELSE IF FromIsoFormat(txt[1]).ok THEN FromIsoFormat(txt[1])
  ELSE FirstPattern(txt[1], SlashPatterns, 1)

\* re.search: the position of the first token of one of the kinds, or 0
FirstOf(txt, kinds) ==
  IF \E i \in DOMAIN txt : txt[i].kind \in kinds
    THEN CHOOSE i \in DOMAIN txt :
           /\ txt[i].kind \in kinds
           /\ \A j \in 1..(i - 1) : txt[j].kind \notin kinds
    ELSE 0

\* parse, lines 48-70: the first YYYY-MM-DD in the text, read without its
\* offset; if there is none or it is no date, the first
\* digits-separator-digits-separator-digits in the text, which may lie
\* inside a YYYY-MM-DD and then matches none of the patterns
Fuzzy(txt) ==
  LET digits == FirstOf(txt, {"iso"})
      alt == FirstOf(txt, {"iso", "slash"})
  IN  IF digits # 0 /\ ValidDate(txt[digits].a, txt[digits].b)
        THEN Parsed(txt[digits].a, txt[digits].b, ExampleHour, FALSE, 0)
      ELSE IF alt # 0 THEN FirstPattern(txt[alt], SlashPatterns, 1)
      ELSE NoParse

\* date_parser.parse(value, fuzzy=True)
Parse(txt) == IF Absolute(txt).ok THEN Absolute(txt) ELSE Fuzzy(txt)

RECURSIVE Matched(_, _, _)
\* one match of the countdown pattern from position i: days, hours,
\* minutes, seconds in this order, each optional, white space between
Matched(txt, i, after) ==
  IF i > Len(txt) THEN {}
  ELSE IF txt[i].kind # "unit" THEN {}
  ELSE IF UnitIndex(txt[i].unit) <= after THEN {}
  ELSE {i} \cup Matched(txt, i + 1, UnitIndex(txt[i].unit))

RECURSIVE Seconds(_, _)
\* the timedelta of the unit tokens at the positions
Seconds(txt, positions) ==
  IF positions = {} THEN 0
  ELSE LET i == CHOOSE j \in positions : TRUE
       IN  txt[i].n * UnitSeconds[UnitIndex(txt[i].unit)]
             + Seconds(txt, positions \ {i})

\* lines 60-79: the first match that has a component
Relative(txt, at) ==
  LET first == FirstOf(txt, {"unit"})
      match == Matched(txt, first, 0)
  IN  IF first = 0
        THEN [res |-> NoDeadline, outcome |-> "returned"]
      ELSE IF \E i \in match : txt[i].n >= HugeDays
        THEN [res |-> NoDeadline, outcome |-> "raised"]
      ELSE [res |-> [ok |-> TRUE, at |-> at + Seconds(txt, match), off |-> 0],
            outcome |-> "returned"]

\* lines 54-56: a naive datetime gets tzinfo UTC, an aware one keeps its own
Isoformat(parsed) ==
  [ok |-> TRUE, at |-> parsed.at,
   off |-> IF parsed.aware THEN parsed.off ELSE 0]

\* the countdown is looked for before the date
ParseCountdownRelativeFirst(txt, at) ==
  IF txt = <<>> THEN [res |-> NoDeadline, outcome |-> "returned"]
  ELSE IF Relative(txt, at).outcome = "raised" \/ Relative(txt, at).res.ok
    THEN Relative(txt, at)
  ELSE IF Parse(txt).ok
    THEN [res |-> Isoformat(Parse(txt)), outcome |-> "returned"]
  ELSE [res |-> NoDeadline, outcome |-> "returned"]

ParseCountdownText(txt, at) ==
  IF txt = <<>> THEN [res |-> NoDeadline, outcome |-> "returned"]
  ELSE IF Parse(txt).ok
    THEN [res |-> Isoformat(Parse(txt)), outcome |-> "returned"]
  ELSE Relative(txt, at)

DeadlineInit ==
  /\ now = 0
  /\ RenderInit
  /\ max_concurrent = MaxConcurrent
  /\ IngestIdle
  /\ StoreIdle
  /\ OtherUnitsIdle("deadline")
  /\ text \in Texts
  /\ reference \in Nows
  /\ resolved = NoDeadline
  /\ dpc = "start"

ResolveDeadline ==
  /\ dpc = "start"
  /\ resolved' = ParseCountdownText(text, reference).res
  /\ dpc' = ParseCountdownText(text, reference).outcome
  /\ UNCHANGED <<text, reference>>
  /\ UNCHANGED <<now, renderVars, ingestVars, storeVars>>
  /\ OtherUnitsUnchanged("deadline")

DeadlineNext == ResolveDeadline

SpecDeadline == DeadlineInit /\ [][DeadlineNext]_vars

HasUnit(txt) == \E i \in DOMAIN txt : txt[i].kind = "unit"

\* a date-shaped token that is a date when it stands alone
IsDate(tok) == tok.kind \in {"iso", "slash"} /\ Absolute(<<tok>>).ok

\* C23 as stated: a text that holds a date anywhere resolves to a date,
\* whatever now is.
C23_AnyDateWins ==
  (dpc = "returned" /\ \E i \in DOMAIN text : IsDate(text[i])) =>
    /\ resolved.ok
    /\ \A at \in Nows : ParseCountdownText(text, at).res = resolved

\* C23: the stages are tried in the order absolute parsing, fuzzy
\* extraction, countdown: when the whole text is a date, or its first
\* YYYY-MM-DD or else its first date-shaped part is one, the deadline is
\* that date for every now, a day/month/year date being read day first
\* when both orders are dates; the countdown gives the deadline only when
\* these stages found no date.
C23_StagesInOrder ==
  dpc = "returned" =>
    /\ Parse(text).ok =>
         /\ resolved.ok
         /\ resolved.at = Parse(text).at
         /\ \A at \in Nows : ParseCountdownText(text, at).res = resolved
    /\ (Len(text) = 1 /\ text[1] = SlashToken(ExampleMonth, ExampleDay)) =>
         resolved.at = Wall(ExampleDay, ExampleMonth, ExampleHour)
    /\ (resolved.ok /\ ~Parse(text).ok) =>
         /\ HasUnit(text)
         /\ resolved.at >= reference

\* a countdown before a date: the date is the deadline
C23_Witness ==
  /\ dpc = "returned"
  /\ Len(text) = 2
  /\ text[1] = UnitToken("days", 2)
  /\ text[2] = IsoToken(ExampleMonth, ExampleDay, FALSE, 0)
  /\ reference = LaterNow
  /\ resolved = [ok |-> TRUE,
                 at |-> Wall(ExampleMonth, ExampleDay, ExampleHour),
                 off |-> 0]

InRange(txt) == \A i \in DOMAIN txt : txt[i].n < HugeDays

\* C24: when no date is found, the deadline is now plus the sum of every
\* days, hours, minutes and seconds component of the text, and there is
\* no deadline when the text has no component.
C24_RelativeSumsAll ==
  (dpc = "returned" /\ ~Parse(text).ok /\ InRange(text)) =>
    IF HasUnit(text)
      THEN resolved =
             [ok |-> TRUE,
              at |-> reference
                       + Seconds(text, { i \in DOMAIN text :
                                           text[i].kind = "unit" }),
              off |-> 0]
      ELSE resolved = NoDeadline

\* C25: a deadline returned by parse_countdown_text is in UTC.
C25_ResolvedIsUtc ==
  (dpc = "returned" /\ resolved.ok) => resolved.off = 0

\* C26: normalization never raises: in a run of the coordinator only a
\* scraper whose own run raised is recorded as failed, and no exception of
\* the normalization of a record ends the run.
C26_NormalizationNeverRaises ==
  /\ \A j \in DOMAIN failures : scrapers[failures[j]].raises
  /\ ipc # "aborted"

\* ========================================================================
\* Part 7: the page fetches of the scrapers.  Scraper.fetch_html
\* (scrapers/base.py) fetches one page, SiteScraper._iterate_pages
\* (scraper/base.py) follows the next-page links, RaffleSiteAScraper.fetch
\* (scraper/sites/raffle_site_a.py) fetches each page with
\* request_with_retry.
\* ========================================================================
MaxPages == 2
\* the retries of a fetch, "retries=3"
MaxRetries == 3

\* the outcome of one GET: a body with a 2xx/3xx status, an exception of
\* session.get, or a status that raise_for_status rejects
Outcomes == {"ok", "network_error", "bad_status"}
Fetchers == {"fetch_html", "_iterate_pages", "request_with_retry"}

\* how many attempts the fetch of one page may take
RetriesOf(f) == IF f = "request_with_retry" THEN MaxRetries ELSE 1

FetchInit ==
  /\ now = 0
  /\ RenderInit
  /\ max_concurrent = MaxConcurrent
  /\ IngestIdle
  /\ StoreIdle
  /\ OtherUnitsIdle("fetch")
  /\ fetcher \in Fetchers
  /\ num_pages \in 1..MaxPages
  /\ fetcher = "fetch_html" => num_pages = 1
  /\ tries = <<<<>>>>
  /\ waits = <<0>>
  /\ payloads = <<>>
  /\ fpc = "fetch"

\* the page being fetched
FetchPage == Len(tries)

\* one session.get with raise_for_status: fetch_html lines 79-81,
\* _iterate_pages lines 79-82, and one attempt of request_with_retry
Attempt ==
  /\ fpc = "fetch"
  /\ \E outcome \in Outcomes :
       LET p == FetchPage
           made == Append(tries[p], outcome)
       IN IF outcome = "ok"
            THEN /\ payloads' = Append(payloads, p)
                 /\ IF p < num_pages
                      THEN /\ tries' = Append([tries EXCEPT ![p] = made], <<>>)
                           /\ waits' = Append(waits, 0)
                           /\ fpc' = "fetch"
                      ELSE /\ tries' = [tries EXCEPT ![p] = made]
                           /\ fpc' = "returned"
                           /\ UNCHANGED waits
            ELSE /\ tries' = [tries EXCEPT ![p] = made]
                 /\ fpc' = IF Len(made) < RetriesOf(fetcher)
                             THEN "wait" ELSE "failed"
                 /\ UNCHANGED <<waits, payloads>>
  /\ UNCHANGED <<fetcher, num_pages>>
  /\ UNCHANGED <<now, renderVars, ingestVars, storeVars>>
  /\ OtherUnitsUnchanged("fetch")

\* the sleep of request_with_retry between two attempts
Backoff ==
  /\ fpc = "wait"
  /\ waits' = [waits EXCEPT ![FetchPage] = @ + 1]
  /\ fpc' = "fetch"
  /\ UNCHANGED <<fetcher, num_pages, tries, payloads>>
  /\ UNCHANGED <<now, renderVars, ingestVars, storeVars>>
  /\ OtherUnitsUnchanged("fetch")

FetchNext == Attempt \/ Backoff

SpecFetch == FetchInit /\ [][FetchNext]_vars

Failed(outcome) == outcome # "ok"

\* the exception that leaves a failed fetch is the one of the last attempt
\* made: no later statement replaces it
FetchError == <<FetchPage, Len(tries[FetchPage])>>

\* C27: a fetch whose every attempt failed has made MaxRetries attempts
\* with a wait between consecutive attempts, and ends with the error of
\* the last of them; a fetch that succeeded made no attempt after the
\* successful one, which was among the first MaxRetries, and returned its
\* body.
C27_FetchRetried ==
  /\ fpc = "failed" =>
       /\ Len(tries[FetchPage]) = MaxRetries
       /\ \A k \in 1..MaxRetries : Failed(tries[FetchPage][k])
       /\ waits[FetchPage] = MaxRetries - 1
       /\ FetchError = <<FetchPage, MaxRetries>>
  /\ \A p \in DOMAIN tries :
       \A k \in DOMAIN tries[p] :
         tries[p][k] = "ok" =>
           /\ k = Len(tries[p])
           /\ k <= MaxRetries
           /\ \E j \in DOMAIN payloads : payloads[j] = p

\* ========================================================================
\* Part 8: the parsing of the cards of a listing.  SiteScraper.scrape goes
\* through the pages and calls parse_listing_page, which calls
\* _build_competition for each card; RaffleSiteAScraper.parse calls
\* _parse_card for each card inside try/except.
\* ========================================================================
MaxItems == 4

\* a card is well formed ("ok"), lacks the nodes of its fields
\* ("missing_nodes": no title, no link), or has a countdown text for
\* which parse_countdown_text raises ("bad_countdown")
CardShapes == {"ok", "missing_nodes", "bad_countdown"}
Items == CardShapes \cup {"next_page"}
Listings == UNION { [1..n -> Items] : n \in 0..MaxItems }
ScraperClasses == {"SiteScraper", "RaffleSiteAScraper"}

\* what the extraction of one card does: "entry", "blank_entry" (an entry
\* with empty title and prize), "skip" or "raise".
\* SiteScraper (RafflePressScraper, ShopifyStoreScraper): the extract_*
\* methods give "" or None for a missing node, extract_deadline calls
\* parse_countdown_text; no try around _build_competition.
\* RaffleSiteAScraper: _parse_card raises AttributeError on a missing
\* node, which parse catches; _parse_deadline catches ValueError.
CardOutcome(class, shape) ==
  IF shape = "ok" THEN "entry"
  ELSE IF class = "SiteScraper"
    THEN IF shape = "missing_nodes" THEN "blank_entry" ELSE "raise"
    ELSE IF shape = "missing_nodes" THEN "skip" ELSE "entry"

ParseInit ==
  /\ now = 0
  /\ RenderInit
  /\ max_concurrent = MaxConcurrent
  /\ IngestIdle
  /\ StoreIdle
  /\ OtherUnitsIdle("parse")
  /\ scraper_class \in ScraperClasses
  /\ listing \in Listings
  /\ parsed_upto = 0
  /\ competitions = <<>>
  /\ ppc = "parse"

\* one step of the loops over the pages and the cards
ParseItem ==
  /\ ppc = "parse"
  /\ parsed_upto < Len(listing)
  /\ LET i == parsed_upto + 1
         outcome == IF listing[i] = "next_page" THEN "skip"
                    ELSE CardOutcome(scraper_class, listing[i])
     IN /\ parsed_upto' = i
        /\ competitions' =
             IF outcome = "entry" THEN Append(competitions, <<i, TRUE>>)
             ELSE IF outcome = "blank_entry"
               THEN Append(competitions, <<i, FALSE>>)
             ELSE competitions
        /\ ppc' = IF outcome = "raise" THEN "raised" ELSE "parse"
  /\ UNCHANGED <<scraper_class, listing>>
  /\ UNCHANGED <<now, renderVars, ingestVars, storeVars>>
  /\ OtherUnitsUnchanged("parse")

\* the loops are over: scrape returns competitions, parse is exhausted
ReturnEntries ==
  /\ ppc = "parse"
  /\ parsed_upto = Len(listing)
  /\ ppc' = "returned"
  /\ UNCHANGED <<scraper_class, listing, parsed_upto, competitions>>
  /\ UNCHANGED <<now, renderVars, ingestVars, storeVars>>
  /\ OtherUnitsUnchanged("parse")

ParseNext == ParseItem \/ ReturnEntries

SpecParse == ParseInit /\ [][ParseNext]_vars

WellFormed(i) == listing[i] = "ok"
Malformed(i) == listing[i] = "missing_nodes"
EntryOf(i) == \E j \in DOMAIN competitions : competitions[j][1] = i

\* C28: the scraper does not fail on a listing; when it has returned, no
\* entry was made of a malformed card and every well-formed card of every
\* page has its entry.
C28_MalformedSkipped ==
  /\ ppc # "raised"
  /\ ppc = "returned" =>
       \A i \in DOMAIN listing :
         /\ Malformed(i) => ~EntryOf(i)
         /\ WellFormed(i) => EntryOf(i)

\* ========================================================================
\* Part 9: ScraperSession of scrapers/session.py
\* ========================================================================
MaxCalls == 3

LoginConfigs == {"none", "email_password", "token", "unsupported"}

\* what a login would meet at the time of a call: the credentials are in
\* the environment or not, the login request succeeds or raises
\* RequestException
LoginConditions == {"ok", "missing_credentials", "request_failed"}

\* _login_with_email_password, _login_with_token and the else branch of
\* ensure_authenticated: the token flow sends no request
LoginResult(config, condition) ==
  IF config = "email_password" THEN condition = "ok"
  ELSE IF config = "token" THEN condition # "missing_credentials"
  ELSE FALSE

\* the flag is set only when the login succeeded
LoginAttemptedIfSuccessful(success) == success

\* line 103: the flag is set before the login is tried
LoginAttempted(success) == TRUE

\* the state after ensure_authenticated under the condition, and what it
\* returns
EnsureAuthenticated(condition) ==
  IF login_config = "none"
    THEN [authenticated |-> authenticated,
          login_attempted |-> login_attempted,
          logins |-> logins, value |-> FALSE]
  ELSE IF login_attempted
    THEN [authenticated |-> authenticated,
          login_attempted |-> login_attempted,
          logins |-> logins, value |-> authenticated]
  ELSE LET success == LoginResult(login_config, condition)
       IN  [authenticated |-> success,
            login_attempted |-> LoginAttempted(success),
            logins |-> Append(logins, condition), value |-> success]

SessionInit ==
  /\ now = 0
  /\ RenderInit
  /\ max_concurrent = MaxConcurrent
  /\ IngestIdle
  /\ StoreIdle
  /\ OtherUnitsIdle("session")
  /\ login_config \in LoginConfigs
  /\ authenticated = FALSE
  /\ login_attempted = FALSE
  /\ logins = <<>>
  /\ returned = <<>>
  /\ session_calls = <<>>

\* a call of ensure_authenticated
EnsureCall ==
  /\ Len(session_calls) < MaxCalls
  /\ \E condition \in LoginConditions :
       LET after == EnsureAuthenticated(condition)
       IN /\ authenticated' = after.authenticated
          /\ login_attempted' = after.login_attempted
          /\ logins' = after.logins
          /\ returned' = Append(returned, after.value)
          /\ session_calls' =
               Append(session_calls, [op |-> "ensure", sent |-> FALSE])
  /\ UNCHANGED login_config
  /\ UNCHANGED <<now, renderVars, ingestVars, storeVars>>
  /\ OtherUnitsUnchanged("session")

\* a call of request: ensure_authenticated, then the request is sent
\* whatever it returned; the request gives a response or raises
\* RequestException, which is logged and raised again
RequestCall ==
  /\ Len(session_calls) < MaxCalls
  /\ \E condition \in LoginConditions :
       LET after == EnsureAuthenticated(condition)
       IN /\ authenticated' = after.authenticated
          /\ login_attempted' = after.login_attempted
          /\ logins' = after.logins
          /\ returned' = Append(returned, after.value)
          /\ session_calls' =
               Append(session_calls, [op |-> "request", sent |-> TRUE])
  /\ UNCHANGED login_config
  /\ UNCHANGED <<now, renderVars, ingestVars, storeVars>>
  /\ OtherUnitsUnchanged("session")

SessionNext == EnsureCall \/ RequestCall

SpecSession == SessionInit /\ [][SessionNext]_vars

\* C29: a session with a login configuration has made exactly one login
\* attempt once it was called, whatever the calls were; every call of
\* ensure_authenticated returned what the first returned, also a failure;
\* and every request was sent, also after a failed login.
C29_LoginOnce ==
  /\ (login_config # "none" /\ session_calls # <<>>) =>
       /\ Len(logins) = 1
       /\ \A i \in DOMAIN returned : returned[i] = returned[1]
       /\ authenticated = returned[1]
  /\ \A i \in DOMAIN session_calls :
       session_calls[i].op = "request" => session_calls[i].sent

\* three calls after a login that failed, when a login now would succeed
C29_Witness ==
  /\ login_config = "email_password"
  /\ Len(session_calls) = MaxCalls
  /\ session_calls[MaxCalls].op = "request"
  /\ logins = <<"request_failed">>
  /\ returned[MaxCalls] = FALSE

\* ========================================================================
\* Part 10: RaffleAPIScraper.run_async of scrapers/raffle_api.py
\* ========================================================================
MaxEndpoints == 3

\* what an endpoint answers: fetch_json raises ("raises"); a payload
\* without "tickets" and "deadline" ("no_data"); a payload with them
\* ("data"); a payload with them whose tickets value int() cannot convert
\* (OverflowError for Infinity), which _safe_int does not catch
EndpointAnswers == {"raises", "no_data", "data", "infinite_tickets"}
EndpointLists == UNION { [1..n -> EndpointAnswers] : n \in 0..MaxEndpoints }

\* the rendered page: it holds raffle data, holds none, or the render raises
RenderOutcomes == {"data", "no_data", "raises"}

\* the fallback is taken as soon as one endpoint gave no result
AfterEndpointGiveUp(answer, last) ==
  IF answer = "data" THEN "returned"
  ELSE IF answer = "infinite_tickets" THEN "raised"
  ELSE "render"

\* lines 45-55: where run_async is after the endpoint answered; last is
\* TRUE for the last endpoint of the list
AfterEndpoint(answer, last) ==
  IF answer = "data" THEN "returned"
  ELSE IF answer = "infinite_tickets" THEN "raised"
  ELSE IF last THEN "render"
  ELSE "endpoints"

ApiInit ==
  /\ now = 0
  /\ RenderInit
  /\ max_concurrent = MaxConcurrent
  /\ IngestIdle
  /\ StoreIdle
  /\ OtherUnitsIdle("api")
  /\ endpoints \in EndpointLists
  /\ fetched = <<>>
  /\ render_calls = 0
  /\ api_result = NoResult
  /\ apc = IF endpoints = <<>> THEN "render" ELSE "endpoints"

\* one iteration of the loop over the endpoints (lines 45-53)
FetchEndpoint ==
  /\ apc = "endpoints"
  /\ LET i == Len(fetched) + 1
     IN /\ fetched' = Append(fetched, i)
        /\ apc' = AfterEndpoint(endpoints[i], i = Len(endpoints))
        /\ api_result' = IF endpoints[i] = "data"
                           THEN [via |-> "endpoint", endpoint |-> i,
                                 data |-> TRUE]
                           ELSE api_result
  /\ UNCHANGED <<endpoints, render_calls>>
  /\ UNCHANGED <<now, renderVars, ingestVars, storeVars>>
  /\ OtherUnitsUnchanged("api")

\* lines 55-59: the render by playwright_fetcher.fetch and
\* _parse_rendered_html, which returns an empty result when the page
\* holds no data
RenderFallback ==
  /\ apc = "render"
  /\ render_calls' = render_calls + 1
  /\ \E outcome \in RenderOutcomes :
       IF outcome = "raises"
         THEN /\ apc' = "raised"
              /\ UNCHANGED api_result
         ELSE /\ apc' = "returned"
              /\ api_result' = [via |-> "render", endpoint |-> 0,
                                data |-> outcome = "data"]
  /\ UNCHANGED <<endpoints, fetched>>
  /\ UNCHANGED <<now, renderVars, ingestVars, storeVars>>
  /\ OtherUnitsUnchanged("api")

ApiNext == FetchEndpoint \/ RenderFallback

SpecApi == ApiInit /\ [][ApiNext]_vars

NoResultFrom(i) == endpoints[i] \in {"raises", "no_data"}

\* C30: the endpoints are fetched in discovery order; a result that came
\* from an endpoint came from the first one whose payload parses, every
\* endpoint before it having raised or given no data, and then nothing
\* was rendered; the render is called, or about to be, only when every
\* endpoint was fetched and none gave a result.
C30_EndpointsBeforeRender ==
  /\ \A k \in DOMAIN fetched : fetched[k] = k
  /\ api_result.via = "endpoint" =>
       /\ endpoints[api_result.endpoint] = "data"
       /\ \A j \in 1..(api_result.endpoint - 1) : NoResultFrom(j)
       /\ Len(fetched) = api_result.endpoint
       /\ render_calls = 0
  /\ (render_calls > 0 \/ apc = "render") =>
       /\ Len(fetched) = Len(endpoints)
       /\ \A j \in DOMAIN endpoints : NoResultFrom(j)

\* the third endpoint gave the result after one that raised and one that
\* had no data
C30_Witness ==
  /\ endpoints = <<"raises", "no_data", "data">>
  /\ apc = "returned"
  /\ api_result = [via |-> "endpoint", endpoint |-> 3, data |-> TRUE]
  /\ render_calls = 0

\* ========================================================================
\* Part 11: _RaffleQueue of scraper/pipeline.py. Producer threads call
\* push and extend, one consumer thread calls pop; a thread switch can
\* happen between any two steps. queue.Queue does put and get under its
\* own mutex, so each of them is one step.
\* ========================================================================
NumProducers == 2
\* the entries the producers pass in, all together
MaxEntries == 4

Producers == 1..NumProducers

\* the entries are put at the consumer's end of the queue
PutFront(q, entry) == <<entry>> \o q

\* line 21: Queue.put appends the entry
Put(q, entry) == Append(q, entry)

\* line 28: Queue.get takes the oldest entry; it blocks on an empty queue
Get(q) == [entry |-> Head(q), rest |-> Tail(q)]

\* the k-th entry producer p passes in
QueueEntry(p, k) == <<p, k>>

RECURSIVE Passed(_, _)
\* the entries the producers 1..p have passed in
Passed(counts_, p) == IF p = 0 THEN 0 ELSE counts_[p] + Passed(counts_, p - 1)

QueueInit ==
  /\ now = 0
  /\ RenderInit
  /\ max_concurrent = MaxConcurrent
  /\ IngestIdle
  /\ StoreIdle
  /\ OtherUnitsIdle("queue")
  /\ queue = <<>>
  /\ queue_lock = 0
  /\ pending = [p \in Producers |-> <<>>]
  /\ issued = [p \in Producers |-> 0]
  /\ popped = <<>>
  /\ qpc = [p \in Producers |-> "idle"]

\* producer p calls push(entry) (n = 1) or extend(entries) with n entries;
\* extend pushes them one by one (lines 24-25)
StartCall(p, n) ==
  /\ qpc[p] = "idle"
  /\ Passed(issued, NumProducers) + n <= MaxEntries
  /\ pending' = [pending EXCEPT
                   ![p] = [k \in 1..n |-> QueueEntry(p, issued[p] + k)]]
  /\ issued' = [issued EXCEPT ![p] = issued[p] + n]
  /\ qpc' = [qpc EXCEPT ![p] = "acquire"]
  /\ UNCHANGED <<queue, queue_lock, popped>>

StartPush(p) == StartCall(p, 1)

StartExtend(p) == \E n \in 2..MaxEntries : StartCall(p, n)

\* line 20: with self._lock, entered when the lock is free
AcquireQueueLock(p) ==
  /\ qpc[p] = "acquire"
  /\ queue_lock = 0
  /\ queue_lock' = p
  /\ qpc' = [qpc EXCEPT ![p] = "put"]
  /\ UNCHANGED <<queue, pending, issued, popped>>

\* line 21
PutEntry(p) ==
  /\ qpc[p] = "put"
  /\ queue' = Put(queue, Head(pending[p]))
  /\ pending' = [pending EXCEPT ![p] = Tail(pending[p])]
  /\ qpc' = [qpc EXCEPT ![p] = "release"]
  /\ UNCHANGED <<queue_lock, issued, popped>>

\* the end of the with block; extend goes on with its next entry
ReleaseQueueLock(p) ==
  /\ qpc[p] = "release"
  /\ queue_lock' = 0
  /\ qpc' = [qpc EXCEPT
               ![p] = IF pending[p] = <<>> THEN "idle" ELSE "acquire"]
  /\ UNCHANGED <<queue, pending, issued, popped>>

\* lines 27-28: the consumer's pop()
Pop ==
  /\ queue # <<>>
  /\ popped' = Append(popped, Get(queue).entry)
  /\ queue' = Get(queue).rest
  /\ UNCHANGED <<queue_lock, pending, issued, qpc>>

QueueNext ==
  /\ \/ \E p \in Producers :
          \/ StartPush(p)
          \/ StartExtend(p)
          \/ AcquireQueueLock(p)
          \/ PutEntry(p)
          \/ ReleaseQueueLock(p)
     \/ Pop
  /\ UNCHANGED <<now, renderVars, ingestVars, storeVars>>
  /\ OtherUnitsUnchanged("queue")

SpecQueue == QueueInit /\ [][QueueNext]_vars

\* the entries of producer p in s, in the order of s
EntriesOf(p, s) == SelectSeq(s, LAMBDA entry : entry[1] = p)

\* how many entries producer p has put
Pushes == [p \in Producers |-> issued[p] - Len(pending[p])]

\* C31: under every interleaving of push and extend calls of the
\* producers with the consumer's pop calls, the size of the queue is the
\* number of entries put minus the number popped, and for each producer
\* the entries popped, then those still queued, then those its running
\* call has yet to put are exactly the entries it passed in, each once
\* and in the order it passed them.
C31_QueueSafe ==
  /\ Len(queue) = Passed(Pushes, NumProducers) - Len(popped)
  /\ \A p \in Producers :
       EntriesOf(p, popped) \o EntriesOf(p, queue) \o pending[p]
         = [k \in 1..issued[p] |-> QueueEntry(p, k)]

\* the consumer popped entries of two producers whose puts interleaved,
\* one of them inside an extend call that is still running
C31_Witness ==
  /\ popped = <<QueueEntry(1, 1), QueueEntry(2, 1), QueueEntry(1, 2)>>
  /\ pending[1] # <<>>
  /\ queue = <<>>

\* ========================================================================
\* fetch with use_cache=false (specification Spec)
\* ========================================================================
Uncached == { c \in Called : ~req[c].use_cache }

\* C38: a fetch with use_cache=false is never served from the cache, also
\* when a live entry exists for its key: when it has returned it returns
\* the content of a render of its own, one render for each such call; it
\* holds its per-key lock and a slot from before the rate limit until the
\* render has ended, its render starts at least min_interval_seconds after
\* the render before; and no step of such a call changes a cache entry.
C38_UncachedFetchFrame ==
  /\ [](\A c \in Uncached :
          /\ via[c] # "cache"
          /\ pc[c] = "done" =>
               /\ rid[c] \in DOMAIN renders
               /\ result[c] = rid[c]
               /\ renders[rid[c]].url = req[c].url
               /\ ~renders[rid[c]].use_cache
               /\ renders[rid[c]].outcome = "ok"
          /\ pc[c] \in {"wait_sem", "wait_rate", "sleeping", "rendering"} =>
               HoldsUrlLock(c)
          /\ pc[c] \in {"wait_rate", "sleeping", "rendering"} =>
               semaphore <= max_concurrent - 1
          /\ rid[c] > 1 =>
               renders[rid[c]].start - renders[rid[c] - 1].start
                 >= MinIntervalSeconds)
  /\ [](Cardinality({ i \in DOMAIN renders : ~renders[i].use_cache })
          = Cardinality({ c \in Uncached : rid[c] # 0 }))
  /\ [][\A c \in Callers :
          (pc'[c] # pc[c] /\ ~req'[c].use_cache) => cache' = cache]_vars

\* a call with use_cache=false returned the content of its own render
\* while the entry of its key, written by another call's render, was live
\* and is still what that call wrote
C38_Witness ==
  \E c \in Uncached : \E d \in Callers :
    /\ pc[c] = "done" /\ via[c] = "render"
    /\ req[d].use_cache /\ via[d] = "render" /\ KeyOf(d) = KeyOf(c)
    /\ rid[d] < rid[c]
    /\ cache[KeyOf(c)].exists
    /\ cache[KeyOf(c)].content = rid[d]
    /\ renders[rid[c]].start - cache[KeyOf(c)].timestamp <= TtlSeconds

\* ========================================================================
\* Termination of fetch (specification SpecLive)
\* ========================================================================
Ended == { c \in Callers : pc[c] \in {"done", "raised"} }

\* no call is under way
Quiescent == Called = Ended

GatesFree ==
  /\ \A u \in Urls : url_locks[u] = Unlocked
  /\ rate_lock = Unlocked
  /\ semaphore = max_concurrent

\* C37: at any time a moment comes at which no call is under way, that
\* is, every fetch call that was made returns or raises in the end,
\* whatever the keys of the concurrent calls; and whenever no call is under
\* way every per-key lock and the rate lock are free and every slot of the
\* semaphore is back.
C37_FetchTerminates ==
  /\ []<>Quiescent
  /\ [](Quiescent => GatesFree)

\* two calls for the same url have ended, the second of them after having
\* waited for the per-key lock while the first rendered, and one of them
\* with an error
C37_Witness ==
  /\ Ended = Callers
  /\ \A c \in Callers : req[c].url = req[1].url /\ via[c] # "cache"
  /\ \E c \in Callers : via[c] = "error"
  /\ Len(renders) = NumCallers
  /\ GatesFree

\* ========================================================================
\* Part 12: the pagination of SiteScraper (scraper/base.py): scrape goes
\* through listing_urls and, for each, through the pages _iterate_pages
\* yields by following the next-page link of each page.
\* ========================================================================
NumUrls == 3

PageUrls == 1..NumUrls

\* get_next_page_url returns None: the page has no next-page link
NoUrl == 0

\* the next-page link of every page: none, the page itself, or any page
LinkStructures == [PageUrls -> PageUrls \cup {NoUrl}]

\* listing_urls: up to two listing urls, equal or different
ListingUrlLists == UNION { [1..n -> {1, 2}] : n \in 0..2 }

\* the requests the link structure allows at most
MaxRequests == 2 * NumUrls

\* the loop goes on however often the url was requested
ContinuesUnseen(url, seen_urls) == url # NoUrl

\* line 77: while next_url and next_url not in seen
Continues(url, seen_urls) == url # NoUrl /\ url \notin seen_urls

\* scrape line 68 with line 75-76: _iterate_pages starts on the listing
\* url at position i, or scrape returns when the list is through
StartListing(i) ==
  IF i <= Len(listing_urls)
  THEN [listing_at |-> i, next_url |-> listing_urls[i], upc |-> "paging"]
  ELSE [listing_at |-> i, next_url |-> NoUrl, upc |-> "returned"]

PagesInit ==
  /\ now = 0
  /\ RenderInit
  /\ max_concurrent = MaxConcurrent
  /\ IngestIdle
  /\ StoreIdle
  /\ OtherUnitsIdle("pages")
  /\ links \in LinkStructures
  /\ listing_urls \in ListingUrlLists
  /\ listing_at = StartListing(1).listing_at
  /\ next_url = StartListing(1).next_url
  /\ upc = StartListing(1).upc
  /\ seen = {}
  /\ requested = <<>>

\* lines 77-83: one iteration of the loop; the page is requested, parsed
\* and yielded, and its next-page link is taken; raise_for_status raises
\* for an error status, which leaves scrape
RequestPage ==
  /\ upc = "paging"
  /\ Continues(next_url, seen)
  /\ Len(requested) < MaxRequests
  /\ seen' = seen \cup {next_url}
  /\ requested' = Append(requested, <<listing_at, next_url>>)
  /\ \E status_ok \in BOOLEAN :
       IF status_ok
       THEN /\ next_url' = links[next_url]
            /\ UNCHANGED upc
       ELSE /\ upc' = "raised"
            /\ UNCHANGED next_url
  /\ UNCHANGED <<links, listing_urls, listing_at>>

\* line 77 false: the generator is exhausted, scrape goes to its next
\* listing url with a new `seen`, or returns
EndListing ==
  /\ upc = "paging"
  /\ ~Continues(next_url, seen)
  /\ listing_at' = StartListing(listing_at + 1).listing_at
  /\ next_url' = StartListing(listing_at + 1).next_url
  /\ upc' = StartListing(listing_at + 1).upc
  /\ seen' = {}
  /\ UNCHANGED <<links, listing_urls, requested>>

PagesNext ==
  /\ RequestPage \/ EndListing
  /\ UNCHANGED <<now, renderVars, ingestVars, storeVars>>
  /\ OtherUnitsUnchanged("pages")

\* scrape is sequential code: it runs on until it returns or raises
SpecPages == PagesInit /\ [][PagesNext]_vars /\ WF_vars(PagesNext)

\* C39: whatever the next-page links, cycles and links of a page to itself
\* included, no url is requested twice for the same listing url, and
\* scrape ends: it returns, or raises for an error status.
C39_PaginationTerminates ==
  /\ [](\A i, j \in DOMAIN requested : i < j => requested[i] # requested[j])
  /\ <>(upc \in {"returned", "raised"})

\* the links form a cycle through every url; scrape went once round the
\* cycle for each of two listing urls and returned
C39_Witness ==
  /\ upc = "returned"
  /\ Len(listing_urls) = 2
  /\ Len(requested) = MaxRequests
  /\ \A u \in PageUrls : links[u] \in PageUrls \ {u}

====
